---- MODULE Spec2Model ----
(***************************************************************************)
(* Model of the claiming-factory program                                   *)
(* (src/programs/claiming-factory/src/lib.rs): the merkle-gated, vested    *)
(* claim, its vesting schedule, the schedule updates and the pause switch. *)
(*                                                                         *)
(* TLC's integers are 32 bits wide, the program's are u64 and the 96-bit   *)
(* mantissas of rust_decimal.  Every u64 and every mantissa is therefore a *)
(* natural number written as a sequence of limbs, least significant first, *)
(* without leading zero limbs (zero is << >>), so that u64 overflow and    *)
(* the 28-digit rounding of Decimal happen in the model where they happen  *)
(* in the program.                                                         *)
(***************************************************************************)
EXTENDS Integers, Sequences, FiniteSets, TLC

\* ------------------------------------------------------------------------
\* Natural numbers of any width (u64 values, Decimal mantissas)
\* ------------------------------------------------------------------------

\* the radix of a limb; limb products stay below 2^31
Radix == 10 ^ 4

Limb(la, li) == IF li >= 1 /\ li <= Len(la) THEN la[li] ELSE 0

MaxOf(ints) == CHOOSE top \in ints : \A other \in ints : other <= top

\* the position of the top nonzero limb, 0 when there is none
TopLimb(tl) == MaxOf({0} \cup {ti \in 1..Len(tl) : tl[ti] # 0})

\* without leading zero limbs
BNorm(na) == SubSeq(na, 1, TopLimb(na))

\* a TLC integer as a number
N(nn) == BNorm(<<nn % Radix, (nn \div Radix) % Radix, nn \div (Radix * Radix)>>)

\* a number below 2^31 as a TLC integer
ToInt(ta) == Limb(ta, 1) + Radix * Limb(ta, 2) + Radix * Radix * Limb(ta, 3)

\* the top limb where two numbers of one length differ, 0 when they are equal
TopDiff(fa, fb) == MaxOf({0} \cup {fi \in 1..Len(fa) : fa[fi] # fb[fi]})

CmpAt(ca, cb, ci) == IF ci = 0 THEN 0 ELSE IF ca[ci] < cb[ci] THEN -1 ELSE 1

\* -1, 0, 1 as pa is below, equal to, above pb
BCmp(pa, pb) ==
    IF Len(pa) < Len(pb) THEN -1
    ELSE IF Len(pa) > Len(pb) THEN 1
    ELSE CmpAt(pa, pb, TopDiff(pa, pb))

BLt(lta, ltb) == BCmp(lta, ltb) < 0
BLe(lea, leb) == BCmp(lea, leb) <= 0
BMax(mxa, mxb) == IF BLt(mxa, mxb) THEN mxb ELSE mxa
BMin(mna, mnb) == IF BLt(mnb, mna) THEN mnb ELSE mna

\* the limb sums asum carry out of limb ai: a limb at or below ai overflows
\* and every limb between passes the carry on
CarryOut(asum, ai) ==
    \E aj \in 1..ai : /\ asum[aj] >= Radix
                      /\ \A ak \in (aj + 1)..ai : asum[ak] = Radix - 1

\* the limbs of a sum from the limb sums
AddLimbs(lsum) ==
    [li \in 1..(Len(lsum) + 1) |->
        (Limb(lsum, li) + (IF CarryOut(lsum, li - 1) THEN 1 ELSE 0)) % Radix]

BAdd(adx, ady) ==
    BNorm(AddLimbs([di \in 1..(IF Len(adx) > Len(ady) THEN Len(adx) ELSE Len(ady)) |->
                       Limb(adx, di) + Limb(ady, di)]))

\* the limb differences sdiff borrow from above limb si
BorrowOut(sdiff, si) ==
    \E sj \in 1..si : /\ sdiff[sj] < 0
                      /\ \A sk \in (sj + 1)..si : sdiff[sk] = 0

SubLimbs(ldiff) ==
    [bi \in 1..Len(ldiff) |->
        (ldiff[bi] + Radix - (IF BorrowOut(ldiff, bi - 1) THEN 1 ELSE 0)) % Radix]

\* sbx - sby for sbx >= sby
BSub(sbx, sby) == BNorm(SubLimbs([xi \in 1..Len(sbx) |-> sbx[xi] - Limb(sby, xi)]))

\* ha * Radix^hj
BShift(ha, hj) ==
    IF ha = << >> THEN << >>
    ELSE [hi \in 1..(Len(ha) + hj) |-> IF hi <= hj THEN 0 ELSE ha[hi - hj]]

\* mlx * mld for one limb mld: the low halves of the limb products plus the
\* high halves one limb up
BMulLimb(mlx, mld) ==
    BAdd([mi \in 1..Len(mlx) |-> (mlx[mi] * mld) % Radix],
         [mj \in 1..(Len(mlx) + 1) |-> IF mj = 1 THEN 0 ELSE (mlx[mj - 1] * mld) \div Radix])

RECURSIVE BMulAt(_, _, _)
BMulAt(ua, ub, ui) ==
    IF ui > Len(ub) THEN << >>
    ELSE BAdd(BMulLimb(ua, ub[ui]), BShift(BMulAt(ua, ub, ui + 1), 1))

BMul(mux, muy) == IF mux = << >> \/ muy = << >> THEN << >> ELSE BMulAt(mux, muy, 1)

\* 10^tenk
Pow10(tenk) == BShift(<<10 ^ (tenk % 4)>>, tenk \div 4)

\* the decimal digits of a number
Digits(ga) ==
    IF ga = << >> THEN 0
    ELSE 4 * (Len(ga) - 1) + (IF ga[Len(ga)] >= 1000 THEN 4
                              ELSE IF ga[Len(ga)] >= 100 THEN 3
                              ELSE IF ga[Len(ga)] >= 10 THEN 2 ELSE 1)

\* ka div kt for kt one of 1, 10, 100, 1000
DivSmallPow10(ka, kt) ==
    BNorm([ki \in 1..Len(ka) |-> (ka[ki] \div kt) + (Limb(ka, ki + 1) % kt) * (Radix \div kt)])

\* <<xa div 10^xk, xa mod 10^xk>>
DivModPow10(xa, xk) ==
    IF xk \div 4 >= Len(xa) THEN << << >>, xa >>
    ELSE << DivSmallPow10(SubSeq(xa, (xk \div 4) + 1, Len(xa)), 10 ^ (xk % 4)),
            BNorm(SubSeq(xa, 1, xk \div 4) \o <<xa[(xk \div 4) + 1] % (10 ^ (xk % 4))>>) >>

\* ya * 10^yk
MulPow10(ya, yk) == BShift(BMulLimb(ya, 10 ^ (yk % 4)), yk \div 4)

\* a quotient limb put above the quotient limbs of <<quotient, remainder>>
PushQuot(lower, top_limb) == << Append(lower[1], top_limb), lower[2] >>

\* long division by one limb vd from limb vi of vx down, vrem the running
\* remainder: <<quotient limbs, remainder>>
RECURSIVE DivLimbAt(_, _, _, _)
DivLimbAt(vx, vd, vi, vrem) ==
    IF vi = 0 THEN << << >>, vrem >>
    ELSE PushQuot(DivLimbAt(vx, vd, vi - 1, (vrem * Radix + vx[vi]) % vd),
                  (vrem * Radix + vx[vi]) \div vd)

NormLimbQuot(lqr) == << BNorm(lqr[1]), N(lqr[2]) >>

\* <<lx div ld, lx mod ld>> for one limb ld > 0
DivModLimb(lx, ld) == NormLimbQuot(DivLimbAt(lx, ld, Len(lx), 0))

\* the largest limb up to `estimate`, and at most two below it, that eb
\* goes into er
QuotNear(er, eb, estimate) ==
    MaxOf({0} \cup {eq \in (estimate - 2)..estimate : eq >= 0 /\ BLe(BMulLimb(eb, eq), er)})

\* the quotient limb of er by a divisor eb whose top limb is Radix \div 2 or
\* more, er below eb * Radix: at most two below the estimate from the top limbs
QuotLimb(er, eb) ==
    QuotNear(er, eb,
             IF (Limb(er, Len(eb) + 1) * Radix + Limb(er, Len(eb))) \div eb[Len(eb)] < Radix
             THEN (Limb(er, Len(eb) + 1) * Radix + Limb(er, Len(eb))) \div eb[Len(eb)]
             ELSE Radix - 1)

RECURSIVE DivAt(_, _, _, _)

\* one step of DivAt with its quotient limb kq
DivStepWith(sa, sb, si, scur, sq) ==
    PushQuot(DivAt(sa, sb, si - 1, BSub(scur, BMulLimb(sb, sq))), sq)

\* one step of DivAt on scur, the remainder so far with the next limb under it
DivStep(ta, tb, ti, tcur) == DivStepWith(ta, tb, ti, tcur, QuotLimb(tcur, tb))

\* long division by kb from limb ki of ka down, kr the running remainder
DivAt(ka, kb, ki, kr) ==
    IF ki = 0 THEN << << >>, kr >>
    ELSE DivStep(ka, kb, ki, BNorm(<<ka[ki]>> \o kr))

DivAtTop(ox, oy) == DivAt(ox, oy, Len(ox), << >>)

Unscale(uqr, uf) == << BNorm(uqr[1]), DivModLimb(uqr[2], uf)[1] >>

\* <<wx div wy, wx mod wy>> for wy of two limbs or more: both are scaled by
\* wf to bring the top limb of the divisor to Radix \div 2 or more
DivModLong(wx, wy, wf) == Unscale(DivAtTop(BMulLimb(wx, wf), BMulLimb(wy, wf)), wf)

\* <<dx div dy, dx mod dy>> for dy > 0
BDivMod(dx, dy) ==
    IF Len(dy) = 1 THEN DivModLimb(dx, dy[1])
    ELSE DivModLong(dx, dy, Radix \div (dy[Len(dy)] + 1))

BDiv(dvx, dvy) == BDivMod(dvx, dvy)[1]
BMod(mdx, mdy) == BDivMod(mdx, mdy)[2]

IsEven(ea) == ea = << >> \/ ea[1] % 2 = 0

\* ------------------------------------------------------------------------
\* u64 arithmetic, Option and Result
\* ------------------------------------------------------------------------

\* u64::MAX = 2^64 - 1 = 18446744073709551615
U64_MAX == <<1615, 955, 737, 6744, 1844>>

Some(somev) == [some |-> TRUE, v |-> somev]
None == [some |-> FALSE]
Ok(okv) == [ok |-> TRUE, v |-> okv]
Err(code) == [ok |-> FALSE, err |-> code]

\* Option::ok_or
ok_or(option, code) == IF option.some THEN Ok(option.v) ELSE Err(code)

\* a number as a u64, None when it does not fit
InU64(wide) == IF BLe(wide, U64_MAX) THEN Some(wide) ELSE None

checked_add(lhs_add, rhs_add) == InU64(BAdd(lhs_add, rhs_add))

checked_mul(lhs_mul, rhs_mul) == InU64(BMul(lhs_mul, rhs_mul))

checked_sub(lhs_sub, rhs_sub) ==
    IF BLe(rhs_sub, lhs_sub) THEN Some(BSub(lhs_sub, rhs_sub)) ELSE None

checked_rem(lhs_rem, rhs_rem) ==
    IF rhs_rem = << >> THEN None ELSE Some(BMod(lhs_rem, rhs_rem))

\* ------------------------------------------------------------------------
\* rust_decimal::Decimal: a 96-bit mantissa m and a scale s in 0..28, the
\* value m / 10^s.  No negative Decimal arises: every Decimal of the program
\* is made from a u64, and a token_percentage reaches Decimal::new only
\* after validate() has bounded it by 100 * 10^9 < 2^63.  A quotient or a
\* product that no Decimal holds exactly is rounded to the most digits that
\* fit, half to even.  Decimals are compared and used by value: the model
\* keeps a quotient at the scale it was computed at.
\* ------------------------------------------------------------------------

MAX_PRECISION == 28

\* Decimal mantissas are below 2^96 = 79228162514264337593543950336
TwoTo96 == <<336, 4395, 5935, 4337, 1426, 1625, 9228, 7>>

Dec(mant, scale) == [m |-> mant, s |-> scale]

DecZERO == Dec(<< >>, 0)

\* Decimal::from_u64
DecFromU64(u64v) == Dec(u64v, 0)

\* a quotient rq rounded to the nearest integer, ties to even; rcmp tells
\* whether twice the remainder is below, equal to, above the divisor
RoundBy(rq, rcmp) ==
    IF rcmp > 0 \/ (rcmp = 0 /\ ~IsEven(rq)) THEN BAdd(rq, <<1>>) ELSE rq

\* <<quotient, remainder>> by rd rounded to the nearest integer
RoundPair(rqr, rd) == RoundBy(rqr[1], BCmp(BMulLimb(rqr[2], 2), rd))

\* rn / rdiv rounded
RoundDiv(rn, rdiv) == RoundPair(BDivMod(rn, rdiv), rdiv)

\* tn / 10^tk rounded
RoundDivPow10(tn, tk) == RoundPair(DivModPow10(tn, tk), Pow10(tk))

\* the quotient of two Decimals as a mantissa at scale qs, rounded
DecQuot(qa, qb, qs) ==
    IF qs + qb.s - qa.s >= 0
    THEN RoundDiv(MulPow10(qa.m, qs + qb.s - qa.s), qb.m)
    ELSE RoundDiv(qa.m, MulPow10(qb.m, qa.s - qb.s - qs))

RECURSIVE DecDivAt(_, _, _)

\* the quotient at scale ys if it fits 96 bits, else at a smaller scale
DecDivTry(ya, yb, ys, yq) ==
    IF BLt(yq, TwoTo96) THEN Ok(Dec(yq, ys))
    ELSE IF ys = 0 THEN Err("Panic")
    ELSE DecDivAt(ya, yb, ys - 1)

\* da / db at scale ds, or at the largest smaller scale whose mantissa fits 96 bits
DecDivAt(da, db, ds) == DecDivTry(da, db, ds, DecQuot(da, db, ds))

\* Decimal / Decimal: the quotient rounded to the most digits a Decimal holds
DecDiv(num, den) ==
    IF den.m = << >> THEN Err("Panic")
    ELSE IF num.m = << >> THEN Ok(DecZERO)
    ELSE DecDivAt(num, den, MAX_PRECISION)

RECURSIVE DecFit(_, _, _)

\* the product with zk digits dropped if it fits 96 bits, else with more dropped
DecFitTry(zp, zs, zk, zq) ==
    IF BLt(zq, TwoTo96) THEN Ok(Dec(zq, zs - zk))
    ELSE IF zk >= zs THEN Err("Panic")
    ELSE DecFit(zp, zs, zk + 1)

\* fp / 10^fs with fk digits dropped, or with the least more that make it a Decimal
DecFit(fp, fs, fk) == DecFitTry(fp, fs, fk, RoundDivPow10(fp, fk))

\* a product of mantissas at scale ps as a Decimal.  2^96 has 29 digits: a
\* product of more digits loses the excess at least, and a scale above 28
\* loses the excess
DecOfProduct(pp, ps) == DecFit(pp, ps, MaxOf({0, ps - MAX_PRECISION, Digits(pp) - 29}))

\* Decimal * Decimal: the product, rounded when it does not fit 96 bits or 28 digits
DecMul(fac1, fac2) ==
    IF fac1.m = << >> \/ fac2.m = << >> THEN Ok(DecZERO)
    ELSE DecOfProduct(BMul(fac1.m, fac2.m), fac1.s + fac2.s)

\* the mantissa of a Decimal at a scale not below its own
MantAt(dval, at_scale) == MulPow10(dval.m, at_scale - dval.s)

MaxScale(dec1, dec2) == IF dec1.s > dec2.s THEN dec1.s ELSE dec2.s

\* Decimal + Decimal, exact: the sums of the program stay below 2, which fits
\* 96 bits at scale 28
DecAdd(term1, term2) ==
    Dec(BAdd(MantAt(term1, MaxScale(term1, term2)), MantAt(term2, MaxScale(term1, term2))),
        MaxScale(term1, term2))

\* <<integral part, fraction>> rounded up to an integer
CeilPair(cqr) == IF cqr[2] = << >> THEN cqr[1] ELSE BAdd(cqr[1], <<1>>)

\* Decimal::ceil
DecCeil(ceild) == Dec(CeilPair(DivModPow10(ceild.m, ceild.s)), 0)

\* Decimal::to_u64: the integral part, None above u64::MAX
DecToU64(tod) == InU64(DivModPow10(tod.m, tod.s)[1])

\* ------------------------------------------------------------------------
\* Period and Vesting
\* ------------------------------------------------------------------------

DECIMALS == 9

Period(token_percentage, start_ts, interval_sec, times, airdropped) ==
    [token_percentage |-> token_percentage, start_ts |-> start_ts,
     interval_sec |-> interval_sec, times |-> times, airdropped |-> airdropped]

\* the second half of Period::end_ts (lines 636-639)
EndAfter(span, start_ts) ==
    IF ~span.some THEN Err("IntegerOverflow")
    ELSE ok_or(checked_add(span.v, start_ts), "IntegerOverflow")

\* Period::end_ts
end_ts(self) == EndAfter(checked_mul(self.times, self.interval_sec), self.start_ts)

\* Period::token_percentage_as_decimal
token_percentage_as_decimal(pself) == Dec(pself.token_percentage, DECIMALS + 2)

\* the body of the loop of validate without the check of the order
ValidateEntryAnyOrder(entry, last_start_ts, entry_end, new_total) ==
    IF ~BLt(<< >>, entry.times) THEN Err("EmptyPeriod")
    ELSE IF ~BLt(<< >>, entry.interval_sec) THEN Err("InvalidIntervalDuration")
    ELSE IF ~entry_end.ok THEN entry_end
    ELSE IF ~new_total.ok THEN new_total
    ELSE Ok(<<entry_end.v, new_total.v>>)

\* the body of the loop of Vesting::validate (lines 672-680), given the end
\* of the entry and the new total: Ok(<<last_start_ts, total_percentage>>)
ValidateEntry(entry, last_start_ts, entry_end, new_total) ==
    IF ~BLt(<< >>, entry.times) THEN Err("EmptyPeriod")
    ELSE IF ~BLt(<< >>, entry.interval_sec) THEN Err("InvalidIntervalDuration")
    ELSE IF ~BLt(last_start_ts, entry.start_ts) THEN Err("InvalidScheduleOrder")
    ELSE IF ~entry_end.ok THEN entry_end
    ELSE IF ~new_total.ok THEN new_total
    ELSE Ok(<<entry_end.v, new_total.v>>)

\* the final check of Vesting::validate (lines 685-689)
ValidateTotal(sum_percentage) ==
    IF /\ BLe(MulPow10(<<99>>, DECIMALS), sum_percentage)
       /\ BLe(sum_percentage, MulPow10(<<100>>, DECIMALS))
    THEN Ok(TRUE)
    ELSE Err("PercentageDoesntCoverAllTokens")

RECURSIVE ValidateFrom(_, _, _, _)

\* the loop of Vesting::validate goes on after an entry, or returns its error
ValidateNext(ns, ni, checked) ==
    IF ~checked.ok THEN checked
    ELSE ValidateFrom(ns, ni + 1, checked.v[1], checked.v[2])

\* the loop of Vesting::validate from entry vfi on
ValidateFrom(vfs, vfi, vflast, vftotal) ==
    IF vfi > Len(vfs) THEN ValidateTotal(vftotal)
    ELSE ValidateNext(vfs, vfi,
             ValidateEntry(vfs[vfi], vflast, end_ts(vfs[vfi]),
                           ok_or(checked_add(vftotal, vfs[vfi].token_percentage),
                                 "IntegerOverflow")))

\* Vesting::validate
validate(vschedule) ==
    IF vschedule = << >> THEN Err("EmptySchedule")
    ELSE ValidateFrom(vschedule, 1, << >>, << >>)

\* Vesting::has_started
has_started(hschedule, hnow) ==
    IF hschedule = << >> THEN FALSE ELSE BLe(hschedule[1].start_ts, hnow)

\* the Change variants
Update(uindex, uperiod) == [kind |-> "Update", index |-> uindex, period |-> uperiod]
Remove(rindex) == [kind |-> "Remove", index |-> rindex]
Push(pperiod) == [kind |-> "Push", period |-> pperiod]

\* a sequence without its element at position rpos (from 1)
RemoveAt(rseq, rpos) == SubSeq(rseq, 1, rpos - 1) \o SubSeq(rseq, rpos + 1, Len(rseq))

\* Vesting::apply_change; an index past the end panics (Vec indexing, Vec::remove)
apply_change(aschedule, change) ==
    IF change.kind = "Push" THEN Ok(Append(aschedule, change.period))
    ELSE IF ~BLt(change.index, N(Len(aschedule))) THEN Err("Panic")
    ELSE IF change.kind = "Update"
    THEN Ok([aschedule EXCEPT ![ToInt(change.index) + 1] = change.period])
    ELSE Ok(RemoveAt(aschedule, ToInt(change.index) + 1))

RECURSIVE ApplyChanges(_, _)

ApplyRest(changed, rest) == IF ~changed.ok THEN changed ELSE ApplyChanges(changed.v, rest)

\* the loop `for change in args.changes` of update_schedule and update_schedule2
ApplyChanges(acs, acl) ==
    IF acl = << >> THEN Ok(acs)
    ELSE ApplyRest(apply_change(acs, Head(acl)), Tail(acl))

RECURSIVE HasStoppedFrom(_, _, _)

\* the body of the loop of Vesting::has_stopped (lines 722-729)
HasStoppedAt(ps, pi, pnow, period_end) ==
    IF ~period_end.ok THEN period_end
    ELSE IF BLt(period_end.v, pnow) THEN HasStoppedFrom(ps, pi + 1, pnow)
    ELSE IF ~ps[pi].airdropped THEN Ok(FALSE)
    ELSE HasStoppedFrom(ps, pi + 1, pnow)

\* the loop of Vesting::has_stopped from period hsi on
HasStoppedFrom(hss, hsi, hsnow) ==
    IF hsi > Len(hss) THEN Ok(TRUE)
    ELSE HasStoppedAt(hss, hsi, hsnow, end_ts(hss[hsi]))

\* Vesting::has_stopped
has_stopped(sschedule, snow) == HasStoppedFrom(sschedule, 1, snow)

\* the intervals of a period that are left at a time
IntervalsLeft(speriod, seconds_passed) ==
    IF ~seconds_passed.some THEN Err("IntegerOverflow")
    ELSE Ok(BSub(speriod.times,
                 BMin(BDiv(seconds_passed.v, speriod.interval_sec), speriod.times)))

\* intervals_passed (lines 777-778)
IntervalsOf(speriod, seconds_passed) ==
    IF ~seconds_passed.some THEN Err("IntegerOverflow")
    ELSE Ok(BMin(BDiv(seconds_passed.v, speriod.interval_sec), speriod.times))

\* seconds_passed counted from the start of the period, whatever was claimed
SecondsSinceStart(aperiod, anow, aligned) ==
    IntervalsOf(aperiod, checked_sub(anow, aperiod.start_ts))

\* seconds_passed (lines 771-776)
SecondsSince(aperiod, anow, aligned) ==
    IF ~aligned.some THEN Err("IntegerOverflow")
    ELSE IntervalsOf(aperiod, checked_sub(anow, BMax(aperiod.start_ts, aligned.v)))

\* last_claimed_at_ts_aligned_by_interval (lines 767-770)
AlignedBy(lperiod, lnow, llast, alignment) ==
    IF ~alignment.some THEN Err("IntegerOverflow")
    ELSE SecondsSince(lperiod, lnow, checked_sub(llast, alignment.v))

\* the intervals since the start of the period, whatever the record says
IntervalsSinceStart(iperiod, inow, last_claimed_at_ts) ==
    SecondsSince(iperiod, inow, Some(<< >>))

\* intervals_passed of bps_available_to_claim (lines 763-778): the intervals of
\* a period credited at a time to a record last claimed at last_claimed_at_ts
intervals_passed(iperiod, inow, last_claimed_at_ts) ==
    AlignedBy(iperiod, inow, last_claimed_at_ts,
              checked_rem(last_claimed_at_ts, iperiod.interval_sec))

\* Decimal * Decimal::from_u64(intervals) of a Decimal that was computed
TimesIntervals(per_interval, intervals) ==
    IF ~per_interval.ok THEN per_interval
    ELSE DecMul(per_interval.v, DecFromU64(intervals))

\* percentage_for_intervals (lines 788-790): (token_percentage / times) * intervals
percentage_for_intervals(fperiod, intervals) ==
    TimesIntervals(DecDiv(token_percentage_as_decimal(fperiod), DecFromU64(fperiod.times)),
                   intervals)

\* the fraction for the intervals that were credited
ShareOf(cperiod, credited) ==
    IF ~credited.ok THEN credited ELSE percentage_for_intervals(cperiod, credited.v)

\* what a period that is neither to come, nor claimed, nor airdropped adds to
\* the claimable fraction (lines 763-790)
PeriodShare(operiod, onow, olast) == ShareOf(operiod, intervals_passed(operiod, onow, olast))

RECURSIVE BpsFrom(_, _, _, _, _, _)

\* total_percentage_to_claim += percentage_for_intervals (line 792)
BpsAddShare(gs, gi, gnow, glast, gclaim, gadd, share) ==
    IF ~share.ok THEN share
    ELSE BpsFrom(gs, gi + 1, gnow, glast, DecAdd(gclaim, share.v), gadd)

\* the body of the loop of bps_available_to_claim after the start check
\* (lines 751-792)
BpsAt(es, ei, enow, elast, eclaim, eadd, period_end) ==
    IF ~period_end.ok THEN period_end
    ELSE IF BLe(period_end.v, elast) THEN BpsFrom(es, ei + 1, enow, elast, eclaim, eadd)
    ELSE IF es[ei].airdropped
    THEN BpsFrom(es, ei + 1, enow, elast, eclaim,
                 DecAdd(eadd, token_percentage_as_decimal(es[ei])))
    ELSE BpsAddShare(es, ei, enow, elast, eclaim, eadd, PeriodShare(es[ei], enow, elast))

\* the loop of Vesting::bps_available_to_claim from period bi on
BpsFrom(bs, bi, bnow, blast, bclaim, badd) ==
    IF bi > Len(bs) THEN Ok(<<bclaim, badd>>)
    ELSE IF BLt(bnow, bs[bi].start_ts) THEN Ok(<<bclaim, badd>>)
    ELSE BpsAt(bs, bi, bnow, blast, bclaim, badd, end_ts(bs[bi]))

\* Vesting::bps_available_to_claim: Ok(<<claimable fraction, airdropped fraction>>)
bps_available_to_claim(bschedule, at_now, at_last) ==
    BpsFrom(bschedule, 1, at_now, at_last, DecZERO, DecZERO)

\* .to_u64().unwrap()
UnwrapU64(as_u64) == IF ~as_u64.some THEN Err("Panic") ELSE Ok(as_u64.v)

\* .ceil().to_u64().unwrap() of a product that was computed
CeilU64(scaled) == IF ~scaled.ok THEN scaled ELSE UnwrapU64(DecToU64(DecCeil(scaled.v)))

\* .to_u64().unwrap() of a product that was computed: the fraction is dropped
FloorU64(scaled) == IF ~scaled.ok THEN scaled ELSE UnwrapU64(DecToU64(scaled.v))

\* the amount without .ceil()
floor_amount(total_amount, bps) == FloorU64(DecMul(DecFromU64(total_amount), bps))

\* (Decimal::from_u64(amount) * bps).ceil().to_u64().unwrap() (lines 484-492)
ceil_amount(total_amount, bps) == CeilU64(DecMul(DecFromU64(total_amount), bps))

\* ------------------------------------------------------------------------
\* keccak and check_proof.  A digest is a number, compared as the bytes of a
\* digest are; keccak is modelled as a collision-free function: the digest
\* of its inputs is the number whose limbs are the limbs of the inputs, the
\* length of the first input, and a top limb that tells leaves (40 bytes
\* hashed, top limb 1) from inner nodes (64 bytes hashed, top limb 2), so
\* that the inputs can be read back from it.  Numbers with another top limb
\* are 32-byte values that are the digest of nothing.
\* ------------------------------------------------------------------------

\* the bytes of a Pubkey, as a limb
PubkeyBytes(key) == IF key = "A" THEN 1 ELSE IF key = "B" THEN 2 ELSE 3

\* keccak::hashv(&[wallet bytes, amount.to_be_bytes()])
KeccakLeaf(wallet, leaf_amount) == leaf_amount \o <<PubkeyBytes(wallet), 1>>

\* keccak::hashv(&[a, b]) of two digests
KeccakPair(left, right) == right \o left \o <<Len(left), 2>>

\* a step of the fold that hashes the running hash first, whatever its size
UnsortedStep(computed_hash, proof_element) == KeccakPair(computed_hash, proof_element)

\* one step of the loop of check_proof
ProofStep(computed_hash, proof_element) ==
    IF BLe(computed_hash, proof_element)
    THEN KeccakPair(computed_hash, proof_element)
    ELSE KeccakPair(proof_element, computed_hash)

\* the loop of check_proof over the proof
RECURSIVE ProofFold(_, _)
ProofFold(fold_hash, fold_proof) ==
    IF fold_proof = << >> THEN fold_hash
    ELSE ProofFold(ProofStep(fold_hash, Head(fold_proof)), Tail(fold_proof))

\* a check_proof that accepts every proof
check_proof_any(original_wallet, cp_amount, root, proof) == Ok(TRUE)

\* check_proof
check_proof(original_wallet, cp_amount, root, proof) ==
    IF ProofFold(KeccakLeaf(original_wallet, cp_amount), proof) = root
    THEN Ok(TRUE)
    ELSE Err("InvalidProof")

\* ------------------------------------------------------------------------
\* The merkle tree behind a root.  The program only verifies paths; the
\* tree is built off chain, by the sorted-pair convention of check_proof:
\* the nodes of a level are paired left to right, a pair hashes smaller
\* digest first, and a last node without partner moves up as it is.
\* ------------------------------------------------------------------------

Leaf(leaf_wallet, entitlement) == [wallet |-> leaf_wallet, amount |-> entitlement]

LeafHashes(leaf_list) ==
    [hi \in 1..Len(leaf_list) |-> KeccakLeaf(leaf_list[hi].wallet, leaf_list[hi].amount)]

\* the hash of a pair of nodes, smaller digest first
SortedPairHash(node1, node2) == KeccakPair(BMin(node1, node2), BMax(node1, node2))

\* the level above a level of nodes
LevelUp(nodes) ==
    [ni \in 1..((Len(nodes) + 1) \div 2) |->
        IF 2 * ni <= Len(nodes) THEN SortedPairHash(nodes[2 * ni - 1], nodes[2 * ni])
        ELSE nodes[2 * ni - 1]]

RECURSIVE RootOfLevel(_)
RootOfLevel(level) == IF Len(level) <= 1 THEN level[1] ELSE RootOfLevel(LevelUp(level))

\* the root of the tree over a list of leaves
MerkleRoot(leaf_list) == RootOfLevel(LeafHashes(leaf_list))

\* the sibling of the node at a position of a level, if it has one
SiblingAt(slevel, spos) ==
    IF spos % 2 = 0 THEN <<slevel[spos - 1]>>
    ELSE IF spos + 1 <= Len(slevel) THEN <<slevel[spos + 1]>>
    ELSE << >>

RECURSIVE PathFrom(_, _)
PathFrom(plevel, ppos) ==
    IF Len(plevel) <= 1 THEN << >>
    ELSE SiblingAt(plevel, ppos) \o PathFrom(LevelUp(plevel), (ppos + 1) \div 2)

\* the sibling path of the leaf at a position of the list
MerklePath(leaf_list, position) == PathFrom(LeafHashes(leaf_list), position)

\* ------------------------------------------------------------------------
\* The accounts
\* ------------------------------------------------------------------------

VARIABLES
    now,                   \* Clock::unix_timestamp
    distributor,           \* the MerkleDistributor account
    vault,                 \* the token amount of the vault
    user_details,          \* UserDetails accounts, by <<merkle_index, user>>
    actual_wallet,         \* ActualWallet accounts, by original wallet
    refund_request,        \* RefundRequest accounts, by wallet
    refund_claim_request,  \* RefundClaimRequest accounts, by claimant
    leaves,                \* off chain: the leaves of the tree behind merkle_root
    paid,                  \* history: tokens claims moved out of the vault in
                           \* this generation, by original wallet
    outcome,               \* the last instruction and its result
    config,                \* the Config account
    signer,                \* the signer of the last instruction of the
                           \* operator (owner, admin or stranger)
    foreseen,              \* history: the ledger before the last claim, and
                           \* what the claims of the holders returned then
    admin_stats            \* the AdminStats account given to remove_refund

vars == <<now, distributor, vault, user_details, actual_wallet, refund_request,
          refund_claim_request, leaves, paid, outcome, config, signer, foreseen,
          admin_stats>>

\* the slots of Config::admins (line 585)
ADMIN_SLOTS == 10

\* the wallet that signs initialize_config
Owner == "O"

\* the Config that initialize_config writes (lines 93-99)
InitializedConfig(owner) == [owner |-> owner, admins |-> [slot \in 1..ADMIN_SLOTS |-> None]]

\* the Config account after initialize_config signed by Owner: the
\* instructions of the operator that follow are signed by Owner
Configured ==
    /\ config = InitializedConfig(Owner)
    /\ signer = Owner
    /\ foreseen = << >>
    /\ admin_stats = [some |-> FALSE]

\* a step that is signed as the one before and leaves the Config account
Settled == UNCHANGED <<config, signer, foreseen, admin_stats>>

REFUND_TIME_LIMIT == 3600

Has(accounts, key) == key \in DOMAIN accounts

\* an account map with `key` set to `val`
Put(accounts, key, val) ==
    [k \in (DOMAIN accounts) \cup {key} |-> IF k = key THEN val ELSE accounts[k]]

\* an account map with `key` closed
Close(accounts, key) == [k \in (DOMAIN accounts) \ {key} |-> accounts[k]]

NoAccounts == [k \in {} |-> TRUE]

ClaimArgs(amount, merkle_proof, original_wallet) ==
    [amount |-> amount, merkle_proof |-> merkle_proof, original_wallet |-> original_wallet]

\* token::transfer out of an account holding `balance`
token_transfer(balance, tr_amount) ==
    IF BLt(balance, tr_amount) THEN Err("InsufficientFunds")
    ELSE Ok(BSub(balance, tr_amount))

\* the check of TokenTransfer::make after the transfer (lines 1440-1446)
TransferChecked(amount_before, tt_amount, moved) ==
    IF ~moved.ok THEN moved
    ELSE IF BSub(amount_before, moved.v) = tt_amount THEN moved
    ELSE Err("InvalidAmountTransferred")

\* TokenTransfer::make: Ok(the balance left)
TokenTransferMake(amount_before, mk_amount) ==
    TransferChecked(amount_before, mk_amount, token_transfer(amount_before, mk_amount))

\* a token program as the transfer of TokenTransfer::make finds it: one that
\* debits the amount, one less, one more or nothing, or that credits the
\* account it should debit
Faults == {"exact", "less", "more", "nothing", "credit"}

\* the balance that a token program with `fault` leaves of `balance` when it
\* reports the transfer of tr_amount
FaultyBalance(balance, tr_amount, fault) ==
    IF fault = "less" THEN BSub(BAdd(balance, <<1>>), tr_amount)
    ELSE IF fault = "more" /\ BLt(tr_amount, balance)
    THEN BSub(BSub(balance, tr_amount), <<1>>)
    ELSE IF fault = "nothing" THEN balance
    ELSE IF fault = "credit" THEN BAdd(balance, <<1>>)
    ELSE BSub(balance, tr_amount)

\* token::transfer by a token program with `fault`: it reports the error of
\* a balance below the amount, and success otherwise
faulty_transfer(balance, tr_amount, fault) ==
    IF BLt(balance, tr_amount) THEN Err("InsufficientFunds")
    ELSE Ok(FaultyBalance(balance, tr_amount, fault))

\* amount_before - amount_after in u64 (line 1444): below zero, a build with
\* overflow checks panics and a build without wraps around 2^64
SubU64(lhs_sub, rhs_sub, overflow_checks) ==
    IF BLe(rhs_sub, lhs_sub) THEN Ok(BSub(lhs_sub, rhs_sub))
    ELSE IF overflow_checks THEN Err("Panic")
    ELSE Ok(BSub(BAdd(BAdd(lhs_sub, U64_MAX), <<1>>), rhs_sub))

\* the check of TokenTransfer::make left out: what the token program
\* reports is taken for granted
TransferUnchecked(tt_amount, moved, difference) == moved

\* the check of TokenTransfer::make after the transfer (lines 1440-1446),
\* with the difference of the balances computed
TransferCheckedIn(tt_amount, moved, difference) ==
    IF ~moved.ok THEN moved
    ELSE IF ~difference.ok THEN difference
    ELSE IF difference.v = tt_amount THEN moved
    ELSE Err("InvalidAmountTransferred")

\* the balance after the transfer, reloaded and checked (lines 1438-1446)
TransferReloaded(amount_before, tt_amount, moved, overflow_checks) ==
    TransferCheckedIn(tt_amount, moved,
                      IF moved.ok THEN SubU64(amount_before, moved.v, overflow_checks)
                      ELSE moved)

\* TokenTransfer::make with a token program with `fault`, in a build with
\* or without overflow checks: Ok(the balance left)
TokenTransferMakeVia(amount_before, mk_amount, fault, overflow_checks) ==
    TransferReloaded(amount_before, mk_amount,
                     faulty_transfer(amount_before, mk_amount, fault), overflow_checks)

\* the account constraints of the Claim context (lines 1306-1372)
ClaimAccounts(user, args) ==
    IF ~Has(user_details, <<distributor.merkle_index, user>>) THEN Err("AccountNotInitialized")
    ELSE IF ~Has(refund_claim_request, user) THEN Err("AccountNotInitialized")
    ELSE IF ~Has(actual_wallet, args.original_wallet) THEN Err("AccountNotInitialized")
    ELSE IF user # actual_wallet[args.original_wallet].actual THEN Err("WrongClaimer")
    ELSE IF args.original_wallet # actual_wallet[args.original_wallet].original
    THEN Err("WrongClaimer")
    ELSE Ok(TRUE)

\* the refund gate of claim without the look at `active`
ClaimRefundGateAnyRequest(args) ==
    /\ distributor.refund_deadline_ts.some
    /\ Has(refund_request, args.original_wallet)
    /\ BLt(distributor.refund_deadline_ts.v, now)

\* the refund gate of the first generation only
ClaimRefundGateFirstGeneration(args) ==
    /\ distributor.merkle_index = << >>
    /\ distributor.refund_deadline_ts.some
    /\ Has(refund_request, args.original_wallet)
    /\ BLt(distributor.refund_deadline_ts.v, now)
    /\ refund_request[args.original_wallet].active

\* the refund gate of claim (lines 450-472)
ClaimRefundGate(args) ==
    /\ distributor.refund_deadline_ts.some
    /\ Has(refund_request, args.original_wallet)
    /\ BLt(distributor.refund_deadline_ts.v, now)
    /\ refund_request[args.original_wallet].active

\* the gates after validate without the check of the ledger
ClaimGatesNoLedger(args, ud, valid) ==
    IF ~valid.ok THEN valid
    ELSE IF ClaimRefundGate(args) THEN Err("RefundRequested")
    ELSE check_proof(args.original_wallet, args.amount, distributor.merkle_root,
                     args.merkle_proof)

\* the gates after the pause with the proof checked before the ledger
ClaimGatesProofFirst(args, ud, valid) ==
    IF ~valid.ok THEN valid
    ELSE IF ~check_proof(args.original_wallet, args.amount, distributor.merkle_root,
                         args.merkle_proof).ok
    THEN Err("InvalidProof")
    ELSE IF ~BLt(ud.claimed_amount, args.amount) THEN Err("AlreadyClaimed")
    ELSE IF ClaimRefundGate(args) THEN Err("RefundRequested")
    ELSE Ok(TRUE)

\* the gates of the claim handler after validate (lines 448-479)
ClaimGatesAfter(args, ud, valid) ==
    IF ~valid.ok THEN valid
    ELSE IF ~BLt(ud.claimed_amount, args.amount) THEN Err("AlreadyClaimed")
    ELSE IF ClaimRefundGate(args) THEN Err("RefundRequested")
    ELSE check_proof(args.original_wallet, args.amount, distributor.merkle_root,
                     args.merkle_proof)

\* the gates of claim without the check of the pause
ClaimGatesUnpaused(user, args, ud) ==
    IF BLt(BAdd(refund_claim_request[user].time_stamp, N(REFUND_TIME_LIMIT)), now)
    THEN Err("DeadlineExpiredForRefund")
    ELSE ClaimGatesAfter(args, ud, validate(distributor.vesting.schedule))

\* the gates of claim without the validation of the schedule
ClaimGatesUnvalidated(user, args, ud) ==
    IF BLt(BAdd(refund_claim_request[user].time_stamp, N(REFUND_TIME_LIMIT)), now)
    THEN Err("DeadlineExpiredForRefund")
    ELSE IF distributor.paused THEN Err("Paused")
    ELSE ClaimGatesAfter(args, ud, Ok(TRUE))

\* the gates of the claim handler before the amounts (lines 441-479)
ClaimGates(user, args, ud) ==
    IF BLt(BAdd(refund_claim_request[user].time_stamp, N(REFUND_TIME_LIMIT)), now)
    THEN Err("DeadlineExpiredForRefund")
    ELSE IF distributor.paused THEN Err("Paused")
    ELSE ClaimGatesAfter(args, ud, validate(distributor.vesting.schedule))

\* a claim of nothing that never reports a stopped schedule
NothingWhateverStopped(stopped) ==
    IF ~stopped.ok THEN stopped ELSE Err("NothingToClaim")

\* the error of a claim of nothing (lines 494-498)
NothingOrStopped(stopped) ==
    IF ~stopped.ok THEN stopped
    ELSE IF stopped.v THEN Err("ScheduleStopped")
    ELSE Err("NothingToClaim")

\* the amounts of claim once computed (lines 484-498)
ClaimAmountsOf(claim_amount, amount_to_add) ==
    IF ~claim_amount.ok THEN claim_amount
    ELSE IF ~amount_to_add.ok THEN amount_to_add
    ELSE IF claim_amount.v = << >>
    THEN NothingOrStopped(has_stopped(distributor.vesting.schedule, now))
    ELSE Ok([amount |-> claim_amount.v, amount_to_add |-> amount_to_add.v])

\* the amounts of claim from the fractions (lines 484-492)
ClaimAmountsAt(args, avail) ==
    IF ~avail.ok THEN avail
    ELSE ClaimAmountsOf(ceil_amount(args.amount, avail.v[1]),
                        ceil_amount(args.amount, avail.v[2]))

\* the amounts of claim (lines 481-498): Ok([amount, amount_to_add])
ClaimAmounts(args, ud) ==
    ClaimAmountsAt(args, bps_available_to_claim(distributor.vesting.schedule, now,
                                                ud.last_claimed_at_ts))

\* the second checked_add of the ledger update (lines 518-523)
LedgerAdded(with_claim, amount_to_add) ==
    IF ~with_claim.ok THEN with_claim
    ELSE ok_or(checked_add(with_claim.v, amount_to_add), "IntegerOverflow")

\* the ledger update of claim without the amount of the airdropped periods
ClaimLedgerNoAirdrop(ud, amounts) ==
    ok_or(checked_add(ud.claimed_amount, amounts.amount), "IntegerOverflow")

\* the ledger update of claim (lines 514-523): Ok(the new claimed_amount)
ClaimLedger(ud, amounts) ==
    LedgerAdded(ok_or(checked_add(ud.claimed_amount, amounts.amount), "IntegerOverflow"),
                amounts.amount_to_add)

\* the end of claim: what it writes
ClaimWritten(amounts, transfer, ledger) ==
    IF ~transfer.ok THEN transfer
    ELSE IF ~ledger.ok THEN ledger
    ELSE Ok([amount |-> amounts.amount, vault |-> transfer.v,
             ud |-> [last_claimed_at_ts |-> now, claimed_amount |-> ledger.v]])

\* claim after the amounts (lines 504-523)
ClaimPay(ud, due) ==
    IF ~due.ok THEN due
    ELSE ClaimWritten(due.v, TokenTransferMake(vault, due.v.amount), ClaimLedger(ud, due.v))

\* claim after the gates (lines 481-523)
ClaimBody(args, ud, gates) ==
    IF ~gates.ok THEN gates ELSE ClaimPay(ud, ClaimAmounts(args, ud))

\* claim on the user's record
ClaimOn(user, args, ud) == ClaimBody(args, ud, ClaimGates(user, args, ud))

\* claim on the record of the first generation when the user has one
ClaimCheckedFirstRecord(user, args, accounts_ok) ==
    IF ~accounts_ok.ok THEN accounts_ok
    ELSE IF Has(user_details, <<(<< >>), user>>)
    THEN ClaimOn(user, args, user_details[<<(<< >>), user>>])
    ELSE ClaimOn(user, args, user_details[<<distributor.merkle_index, user>>])

\* claim after the account constraints
ClaimChecked(user, args, accounts_ok) ==
    IF ~accounts_ok.ok THEN accounts_ok
    ELSE ClaimOn(user, args, user_details[<<distributor.merkle_index, user>>])

\* claim as a function of the accounts: Ok([amount, vault, ud]) or the error
ClaimCall(user, args) == ClaimChecked(user, args, ClaimAccounts(user, args))

ErrOf(result) == IF result.ok THEN "Ok" ELSE result.err

\* ------------------------------------------------------------------------
\* The instructions.  A failing instruction commits nothing: only `outcome`
\* tells it happened.
\* ------------------------------------------------------------------------

Failed(op, err) ==
    /\ outcome' = [op |-> op, err |-> err]
    /\ UNCHANGED <<now, distributor, vault, user_details, actual_wallet, refund_request,
                   refund_claim_request, leaves, paid>>

InitializeArgs(merkle_root, schedule, refund_deadline_ts) ==
    [merkle_root |-> merkle_root, schedule |-> schedule,
     refund_deadline_ts |-> refund_deadline_ts]

\* the MerkleDistributor that initialize writes (lines 107-118)
InitializedDistributor(args) ==
    [merkle_index |-> << >>, merkle_root |-> args.merkle_root, paused |-> FALSE,
     refund_deadline_ts |-> args.refund_deadline_ts,
     vesting |-> [schedule |-> args.schedule]]

Initialize2Args(merkle_root, periods_count, refund_deadline_ts) ==
    [merkle_root |-> merkle_root, periods_count |-> periods_count,
     refund_deadline_ts |-> refund_deadline_ts]

\* the MerkleDistributor that initialize2 writes (lines 126-136): the
\* schedule is Vesting::new_unchecked(vec![])
Initialized2Distributor(args) ==
    [merkle_index |-> << >>, merkle_root |-> args.merkle_root, paused |-> FALSE,
     refund_deadline_ts |-> args.refund_deadline_ts,
     vesting |-> [schedule |-> << >>]]

\* the distributor account before initialize
NoDistributor == [paused |-> FALSE]

\* an instruction that was sent and is not yet processed
InFlight(op, args) == [op |-> op, err |-> "InFlight", args |-> args]

\* what initialize commits once Vesting::new has validated the schedule
InitializeTo(args, valid) ==
    /\ outcome' = [op |-> "initialize", err |-> ErrOf(valid), args |-> args]
    /\ distributor' = IF valid.ok THEN InitializedDistributor(args) ELSE distributor
    /\ UNCHANGED <<now, vault, user_details, actual_wallet, refund_request,
                   refund_claim_request, leaves, paid>>

\* initialize (lines 104-121)
Initialize(args) == InitializeTo(args, validate(args.schedule))

\* initialize2 (lines 123-139)
Initialize2(args) ==
    /\ outcome' = [op |-> "initialize2", err |-> "Ok", args |-> args]
    /\ distributor' = Initialized2Distributor(args)
    /\ UNCHANGED <<now, vault, user_details, actual_wallet, refund_request,
                   refund_claim_request, leaves, paid>>

\* the UserDetails that init_user_details writes (lines 144-148)
NewUserDetails == [last_claimed_at_ts |-> << >>, claimed_amount |-> << >>]

\* init_user_details for `user` in the current generation (lines 141-151)
InitUserDetails(user) ==
    IF Has(user_details, <<distributor.merkle_index, user>>)
    THEN Failed("init_user_details", "AccountAlreadyInUse")
    ELSE /\ user_details' =
                Put(user_details, <<distributor.merkle_index, user>>, NewUserDetails)
         /\ outcome' = [op |-> "init_user_details", err |-> "Ok"]
         /\ UNCHANGED <<now, distributor, vault, actual_wallet, refund_request,
                        refund_claim_request, leaves, paid>>

\* refund_claim_request by `claimant` (lines 538-546)
RefundClaimRequest(claimant, amount) ==
    IF Has(refund_claim_request, claimant)
    THEN Failed("refund_claim_request", "AccountAlreadyInUse")
    ELSE /\ refund_claim_request' =
                Put(refund_claim_request, claimant,
                    [claimant |-> claimant, amount |-> amount, time_stamp |-> now])
         /\ outcome' = [op |-> "refund_claim_request", err |-> "Ok"]
         /\ UNCHANGED <<now, distributor, vault, user_details, actual_wallet,
                        refund_request, leaves, paid>>

\* the Claimed event (lines 57-64)
Claimed(merkle_index, account, token_account, amount) ==
    [merkle_index |-> merkle_index, account |-> account,
     token_account |-> token_account, amount |-> amount]

\* Claim::target_wallet: the token account that the signer passes to claim,
\* here its own (lines 1367-1371)
target_wallet(user) == [token_account_of |-> user]

\* what claim commits; the RefundClaimRequest account is closed when the
\* instruction succeeds (line 1321).  Lines 525-527 set active = false on
\* the value that Account::try_from built in the handler (line 452), which
\* nothing writes back to the RefundRequest account: it stays as it was.
\* a claim that leaves the RefundClaimRequest account open when it pays
ClaimCommitKeepsRequest(user, args, claimed) ==
    IF ~claimed.ok
    THEN /\ outcome' = [op |-> "claim", err |-> claimed.err, user |-> user, args |-> args]
         /\ UNCHANGED <<now, distributor, vault, user_details, actual_wallet,
                        refund_request, refund_claim_request, leaves, paid>>
    ELSE /\ vault' = claimed.v.vault
         /\ user_details' =
                [user_details EXCEPT ![<<distributor.merkle_index, user>>] = claimed.v.ud]
         /\ paid' = [paid EXCEPT ![args.original_wallet] = BAdd(@, claimed.v.amount)]
         /\ outcome' = [op |-> "claim", err |-> "Ok", user |-> user, args |-> args,
                        amount |-> claimed.v.amount,
                        emitted |-> <<Claimed(distributor.merkle_index, user,
                                              target_wallet(user), claimed.v.amount)>>]
         /\ UNCHANGED <<now, distributor, actual_wallet, refund_request,
                        refund_claim_request, leaves>>

\* a claim that writes its ledger to every record of the generation
ClaimCommitEveryRecord(user, args, claimed) ==
    IF ~claimed.ok
    THEN /\ outcome' = [op |-> "claim", err |-> claimed.err, user |-> user, args |-> args]
         /\ UNCHANGED <<now, distributor, vault, user_details, actual_wallet,
                        refund_request, refund_claim_request, leaves, paid>>
    ELSE /\ vault' = claimed.v.vault
         /\ user_details' = [key \in DOMAIN user_details |-> claimed.v.ud]
         /\ refund_claim_request' = Close(refund_claim_request, user)
         /\ paid' = [paid EXCEPT ![args.original_wallet] = BAdd(@, claimed.v.amount)]
         /\ outcome' = [op |-> "claim", err |-> "Ok", user |-> user, args |-> args,
                        amount |-> claimed.v.amount,
                        emitted |-> <<Claimed(distributor.merkle_index, user,
                                              target_wallet(user), claimed.v.amount)>>]
         /\ UNCHANGED <<now, distributor, actual_wallet, refund_request, leaves>>

ClaimCommit(user, args, claimed) ==
    IF ~claimed.ok
    THEN /\ outcome' = [op |-> "claim", err |-> claimed.err, user |-> user, args |-> args]
         /\ UNCHANGED <<now, distributor, vault, user_details, actual_wallet,
                        refund_request, refund_claim_request, leaves, paid>>
    ELSE /\ vault' = claimed.v.vault
         /\ user_details' =
                [user_details EXCEPT ![<<distributor.merkle_index, user>>] = claimed.v.ud]
         /\ refund_claim_request' = Close(refund_claim_request, user)
         /\ paid' = [paid EXCEPT ![args.original_wallet] = BAdd(@, claimed.v.amount)]
         /\ outcome' = [op |-> "claim", err |-> "Ok", user |-> user, args |-> args,
                        amount |-> claimed.v.amount,
                        emitted |-> <<Claimed(distributor.merkle_index, user,
                                              target_wallet(user), claimed.v.amount)>>]
         /\ UNCHANGED <<now, distributor, actual_wallet, refund_request, leaves>>

\* claim signed by `user` (lines 433-537)
Claim(user, args) == ClaimCommit(user, args, ClaimCall(user, args))

\* set_paused (lines 201-209)
SetPaused(paused) ==
    IF distributor.paused = paused THEN Failed("set_paused", "ChangingPauseValueToTheSame")
    ELSE /\ distributor' = [distributor EXCEPT !.paused = paused]
         /\ outcome' = [op |-> "set_paused", err |-> "Ok"]
         /\ UNCHANGED <<now, vault, user_details, actual_wallet, refund_request,
                        refund_claim_request, leaves, paid>>

UpdateRootArgs(merkle_root, unpause) == [merkle_root |-> merkle_root, unpause |-> unpause]

\* the MerkleRootUpdated event (lines 66-71)
MerkleRootUpdated(merkle_index, merkle_root) ==
    [merkle_index |-> merkle_index, merkle_root |-> merkle_root]

\* update_root that installs the root and keeps the generation
UpdateRootKeepsIndex(args, new_leaves) ==
    /\ distributor' = [distributor EXCEPT !.merkle_root = args.merkle_root]
    /\ leaves' = new_leaves
    /\ outcome' = [op |-> "update_root", err |-> "Ok", args |-> args,
                   emitted |-> <<MerkleRootUpdated(distributor.merkle_index,
                                                   args.merkle_root)>>]
    /\ UNCHANGED <<now, vault, user_details, actual_wallet, refund_request,
                   refund_claim_request, paid>>

\* what update_root commits; the root is the root of the tree over
\* new_leaves, and a new generation starts with nothing paid
UpdateRootTo(args, new_leaves, next_index) ==
    IF ~next_index.some THEN Failed("update_root", "IntegerOverflow")
    ELSE /\ distributor' = [distributor EXCEPT
                                !.merkle_root = args.merkle_root,
                                !.merkle_index = next_index.v,
                                !.paused = IF args.unpause THEN FALSE ELSE @]
         /\ leaves' = new_leaves
         /\ paid' = [w \in DOMAIN paid |-> << >>]
         /\ outcome' = [op |-> "update_root", err |-> "Ok", args |-> args,
                        emitted |-> <<MerkleRootUpdated(next_index.v, args.merkle_root)>>]
         /\ UNCHANGED <<now, vault, user_details, actual_wallet, refund_request,
                        refund_claim_request>>

\* update_root (lines 180-199)
UpdateRoot(args, new_leaves) ==
    UpdateRootTo(args, new_leaves, checked_add(distributor.merkle_index, <<1>>))

UpdateScheduleArgs(changes) == [changes |-> changes]

\* what update_schedule commits once the changes are applied and checked
UpdateScheduleTo(applied, valid) ==
    IF ~applied.ok THEN Failed("update_schedule", applied.err)
    ELSE IF ~valid.ok THEN Failed("update_schedule", valid.err)
    ELSE /\ distributor' = [distributor EXCEPT !.vesting.schedule = applied.v]
         /\ outcome' = [op |-> "update_schedule", err |-> "Ok"]
         /\ UNCHANGED <<now, vault, user_details, actual_wallet, refund_request,
                        refund_claim_request, leaves, paid>>

\* the changes applied and validated (lines 161-165)
UpdateScheduleWith(applied) ==
    UpdateScheduleTo(applied, IF applied.ok THEN validate(applied.v) ELSE applied)

\* update_schedule (lines 153-168)
UpdateSchedule(args) ==
    IF has_started(distributor.vesting.schedule, now)
    THEN Failed("update_schedule", "VestingAlreadyStarted")
    ELSE UpdateScheduleWith(ApplyChanges(distributor.vesting.schedule, args.changes))

\* what update_schedule2 commits once the changes are applied
UpdateSchedule2To(applied) ==
    IF ~applied.ok THEN Failed("update_schedule2", applied.err)
    ELSE /\ distributor' = [distributor EXCEPT !.vesting.schedule = applied.v]
         /\ outcome' = [op |-> "update_schedule2", err |-> "Ok"]
         /\ UNCHANGED <<now, vault, user_details, actual_wallet, refund_request,
                        refund_claim_request, leaves, paid>>

\* update_schedule2 (lines 170-178)
UpdateSchedule2(args) ==
    UpdateSchedule2To(ApplyChanges(distributor.vesting.schedule, args.changes))

\* the UserDetails that change_wallet writes for the new wallet (lines 376-380)
CopiedUserDetails(ud) ==
    [last_claimed_at_ts |-> ud.last_claimed_at_ts, claimed_amount |-> ud.claimed_amount]

\* the account constraints of the ChangeWallet context (lines 1195-1243)
ChangeWalletAccounts(user, new_wallet, original_wallet) ==
    IF ~Has(user_details, <<distributor.merkle_index, user>>)
    THEN Err("AccountNotInitialized")
    ELSE IF Has(user_details, <<distributor.merkle_index, new_wallet>>)
    THEN Err("AccountAlreadyInUse")
    ELSE IF ~Has(actual_wallet, original_wallet) THEN Err("AccountNotInitialized")
    ELSE IF actual_wallet[original_wallet].original # original_wallet
    THEN Err("NotAllowedToChangeWallet")
    ELSE IF actual_wallet[original_wallet].actual # user
    THEN Err("NotAllowedToChangeWallet")
    ELSE Ok(TRUE)

\* what change_wallet commits: the record of the new wallet, the actual
\* wallet, and the record of the signer closed (lines 374-387)
ChangeWalletTo(user, new_wallet, original_wallet, accounts_ok) ==
    IF ~accounts_ok.ok
    THEN /\ outcome' = [op |-> "change_wallet", err |-> accounts_ok.err, user |-> user,
                        new_wallet |-> new_wallet, original_wallet |-> original_wallet]
         /\ UNCHANGED <<now, distributor, vault, user_details, actual_wallet,
                        refund_request, refund_claim_request, leaves, paid>>
    ELSE /\ user_details' =
                Close(Put(user_details, <<distributor.merkle_index, new_wallet>>,
                          CopiedUserDetails(
                              user_details[<<distributor.merkle_index, user>>])),
                      <<distributor.merkle_index, user>>)
         /\ actual_wallet' = [actual_wallet EXCEPT ![original_wallet].actual = new_wallet]
         /\ outcome' = [op |-> "change_wallet", err |-> "Ok", user |-> user,
                        new_wallet |-> new_wallet, original_wallet |-> original_wallet]
         /\ UNCHANGED <<now, distributor, vault, refund_request, refund_claim_request,
                        leaves, paid>>

\* change_wallet signed by `user` (lines 373-390)
ChangeWallet(user, new_wallet, original_wallet) ==
    ChangeWalletTo(user, new_wallet, original_wallet,
                   ChangeWalletAccounts(user, new_wallet, original_wallet))

\* the RefundRequest that init_refund_request writes (lines 408-412)
RefundRequest(user, active) == [user |-> user, active |-> active]

\* no refund deadline is ever over
RefundDeadlineNever == FALSE

\* the check of the refund deadline in init_refund_request and
\* cancel_refund_request (lines 398-404, 420-426)
RefundDeadlineIsOver ==
    /\ distributor.refund_deadline_ts.some
    /\ BLt(distributor.refund_deadline_ts.v, now)

\* the account constraints of the InitRefundRequest context (lines 1245-1275)
InitRefundRequestAccounts(user) ==
    IF ~Has(user_details, <<distributor.merkle_index, user>>)
    THEN Err("AccountNotInitialized")
    ELSE IF Has(refund_request, user) THEN Err("AccountAlreadyInUse")
    ELSE Ok(TRUE)

\* the handler of init_refund_request (lines 392-415)
InitRefundRequestCall(user, accounts_ok) ==
    IF ~accounts_ok.ok THEN accounts_ok
    ELSE IF user_details[<<distributor.merkle_index, user>>].claimed_amount # << >>
    THEN Err("AlreadyClaimed")
    ELSE IF RefundDeadlineIsOver THEN Err("RefundDeadlineIsOver")
    ELSE Ok(RefundRequest(user, TRUE))

InitRefundRequestTo(user, written) ==
    IF ~written.ok
    THEN /\ outcome' = [op |-> "init_refund_request", err |-> written.err, user |-> user]
         /\ UNCHANGED <<now, distributor, vault, user_details, actual_wallet,
                        refund_request, refund_claim_request, leaves, paid>>
    ELSE /\ refund_request' = Put(refund_request, user, written.v)
         /\ outcome' = [op |-> "init_refund_request", err |-> "Ok", user |-> user]
         /\ UNCHANGED <<now, distributor, vault, user_details, actual_wallet,
                        refund_claim_request, leaves, paid>>

\* init_refund_request signed by `user` (lines 392-415)
InitRefundRequest(user) ==
    InitRefundRequestTo(user,
                        InitRefundRequestCall(user, InitRefundRequestAccounts(user)))

\* the handler of cancel_refund_request after the constraints of the
\* CancelRefundRequest context (lines 417-431, 1277-1294)
CancelRefundRequestCall(user) ==
    IF ~Has(refund_request, user) THEN Err("AccountNotInitialized")
    ELSE IF RefundDeadlineIsOver THEN Err("RefundDeadlineIsOver")
    ELSE Ok(FALSE)

CancelRefundRequestTo(user, written) ==
    IF ~written.ok
    THEN /\ outcome' = [op |-> "cancel_refund_request", err |-> written.err,
                        user |-> user]
         /\ UNCHANGED <<now, distributor, vault, user_details, actual_wallet,
                        refund_request, refund_claim_request, leaves, paid>>
    ELSE /\ refund_request' = [refund_request EXCEPT ![user].active = written.v]
         /\ outcome' = [op |-> "cancel_refund_request", err |-> "Ok", user |-> user]
         /\ UNCHANGED <<now, distributor, vault, user_details, actual_wallet,
                        refund_claim_request, leaves, paid>>

\* cancel_refund_request signed by `user` (lines 417-431)
CancelRefundRequest(user) == CancelRefundRequestTo(user, CancelRefundRequestCall(user))

\* the body of the loop of stop_vesting with a period that starts now taken
\* for a future one
StopPeriodFromNow(period, at_now) ==
    IF BLt(period.start_ts, at_now) THEN period ELSE [period EXCEPT !.airdropped = TRUE]

\* the body of the loop of stop_vesting (lines 215-223)
StopPeriod(period, at_now) ==
    IF BLe(period.start_ts, at_now) THEN period ELSE [period EXCEPT !.airdropped = TRUE]

\* the loop of stop_vesting (lines 215-223)
StoppedSchedule(schedule, at_now) ==
    [index \in 1..Len(schedule) |-> StopPeriod(schedule[index], at_now)]

\* stop_vesting (lines 211-226)
StopVesting ==
    /\ distributor' = [distributor EXCEPT
                           !.vesting.schedule = StoppedSchedule(@, now)]
    /\ outcome' = [op |-> "stop_vesting", err |-> "Ok"]
    /\ UNCHANGED <<now, vault, user_details, actual_wallet, refund_request,
                   refund_claim_request, leaves, paid>>

\* new_token_percentage.to_u64().ok_or(IntegerOverflow) (lines 280-282)
ScaledToU64(product) ==
    IF ~product.ok THEN product ELSE ok_or(DecToU64(product.v), "IntegerOverflow")

\* Decimal::from_u64(period.token_percentage) * scale_ratio (lines 276-282)
ScaledPercentage(token_percentage, scale_ratio) ==
    IF ~scale_ratio.ok THEN scale_ratio
    ELSE ScaledToU64(DecMul(DecFromU64(token_percentage), scale_ratio.v))

\* the token_percentage of the period in progress after the re-scale
\* (lines 270-282); Decimal / panics on a divisor of zero
new_token_percentage(period, new_period_duration, old_period_duration) ==
    ScaledPercentage(period.token_percentage,
                     DecDiv(DecFromU64(new_period_duration),
                            DecFromU64(old_period_duration)))

\* the re-scale of the period in progress that keeps the number of intervals
RescaleKeepsTimes(period, new_period_duration, old_period_duration, percentage) ==
    IF ~BLe(new_period_duration, old_period_duration) THEN Err("PeriodDurationIncreased")
    ELSE IF ~percentage.ok THEN percentage
    ELSE IF ~BLe(percentage.v, period.token_percentage) THEN Err("TokenPercentageIncreased")
    ELSE Ok([period EXCEPT !.interval_sec = new_period_duration,
                           !.token_percentage = percentage.v])

\* the period in progress with the durations and the percentage computed
\* (lines 256-288)
RescaleWith(period, new_period_duration, old_period_duration, percentage) ==
    IF ~BLe(new_period_duration, old_period_duration) THEN Err("PeriodDurationIncreased")
    ELSE IF ~percentage.ok THEN percentage
    ELSE IF ~BLe(percentage.v, period.token_percentage) THEN Err("TokenPercentageIncreased")
    ELSE Ok([period EXCEPT !.times = <<1>>,
                           !.interval_sec = new_period_duration,
                           !.token_percentage = percentage.v])

\* the two checked_sub of the re-scale (lines 251-259)
RescaleBy(period, old_period_duration, new_period_duration) ==
    IF ~old_period_duration.some THEN Err("EmptyPeriod")
    ELSE IF ~new_period_duration.some THEN Err("EmptyPeriod")
    ELSE RescaleWith(period, new_period_duration.v, old_period_duration.v,
                     new_token_percentage(period, new_period_duration.v,
                                          old_period_duration.v))

\* the re-scale of the period in progress (lines 250-288)
Rescale(period, at_now, period_end_ts) ==
    RescaleBy(period, checked_sub(period_end_ts, period.start_ts),
              checked_sub(at_now, period.start_ts))

RECURSIVE Stop2From(_, _, _, _)

Stop2Rescaled(schedule, index, at_now, rescaled) ==
    IF ~rescaled.ok THEN rescaled
    ELSE Stop2From([schedule EXCEPT ![index] = rescaled.v], index + 1, at_now, TRUE)

\* the body of the loop of stop_vesting2 (lines 235-288)
Stop2At(schedule, index, at_now, seen_current_period, period_end_ts) ==
    IF ~period_end_ts.ok THEN period_end_ts
    ELSE IF BLt(period_end_ts.v, at_now)
    THEN Stop2From(schedule, index + 1, at_now, seen_current_period)
    ELSE IF BLt(at_now, schedule[index].start_ts)
    THEN Stop2From([schedule EXCEPT ![index].airdropped = TRUE], index + 1, at_now,
                   seen_current_period)
    ELSE IF seen_current_period THEN Err("InvalidSchedule")
    ELSE Stop2Rescaled(schedule, index, at_now,
                       Rescale(schedule[index], at_now, period_end_ts.v))

\* the loop of stop_vesting2 from the period at `index` on (lines 234-289)
Stop2From(schedule, index, at_now, seen_current_period) ==
    IF index > Len(schedule) THEN Ok(schedule)
    ELSE Stop2At(schedule, index, at_now, seen_current_period, end_ts(schedule[index]))

\* the schedule that stop_vesting2 leaves at at_now (lines 232-289)
StoppedSchedule2(schedule, at_now) == Stop2From(schedule, 1, at_now, FALSE)

\* what stop_vesting2 commits
StopVesting2To(stopped) ==
    IF ~stopped.ok THEN Failed("stop_vesting2", stopped.err)
    ELSE /\ distributor' = [distributor EXCEPT !.vesting.schedule = stopped.v]
         /\ outcome' = [op |-> "stop_vesting2", err |-> "Ok"]
         /\ UNCHANGED <<now, vault, user_details, actual_wallet, refund_request,
                        refund_claim_request, leaves, paid>>

\* stop_vesting2 (lines 228-292)
StopVesting2 == StopVesting2To(StoppedSchedule2(distributor.vesting.schedule, now))

\* the clock moves on by `step`, not past `last`
Tick(step, last) ==
    /\ BLe(BAdd(now, N(step)), N(last))
    /\ now' = BAdd(now, N(step))
    /\ outcome' = [op |-> "tick", err |-> "Ok"]
    /\ UNCHANGED <<distributor, vault, user_details, actual_wallet, refund_request,
                   refund_claim_request, leaves, paid>>

\* ------------------------------------------------------------------------
\* The distributions that are explored
\* ------------------------------------------------------------------------

Wallets == {"A", "B"}

\* the wallet that signs the claims
Signers == {"A"}

\* the entitlements the leaves commit to
EntA == N(1000)
EntB == N(10)

\* the tokens the vault holds at the start
VaultFunds == N(5000)

\* the clock at the start, its step and its last value
StartNow == 1000
TickStep == 250
MaxNow == 2000

\* token_percentage of `percent` per cent: percent * 10^DECIMALS
Pct(percent) == MulPow10(N(percent), DECIMALS)

\* the schedule of the reference scenario
Scenario == <<Period(Pct(100), N(1000), N(100), N(10), FALSE)>>

\* three unlocks of a third
Thirds == <<Period(Pct(100), N(1000), N(250), N(3), FALSE)>>

\* three unlocks of a third of 99 per cent
Thirds99 == <<Period(Pct(99), N(1000), N(250), N(3), FALSE)>>

TreeLeaves == <<Leaf("A", EntA), Leaf("B", EntB)>>

\* init_actual_wallet: every wallet claims for itself (lines 361-370)
OwnWallets == [w \in Wallets |-> [original |-> w, actual |-> w]]

\* the position of a wallet's leaf in the list of leaves
PositionOf(leaf_list, wallet) ==
    CHOOSE position \in 1..Len(leaf_list) : leaf_list[position].wallet = wallet

\* the entitlement the tree commits to for a wallet
Entitlement(wallet) == leaves[PositionOf(leaves, wallet)].amount

\* the arguments of the claim of a wallet for its own leaf
OwnClaimArgs(wallet) ==
    ClaimArgs(Entitlement(wallet), MerklePath(leaves, PositionOf(leaves, wallet)), wallet)

\* a distribution after initialize over one of leaf_lists, with one of
\* schedules, when the clock shows start_now
InitOver(schedules, leaf_lists, start_now) ==
    /\ now = N(start_now)
    /\ leaves \in leaf_lists
    /\ \E schedule \in schedules :
          distributor = InitializedDistributor(
                            InitializeArgs(MerkleRoot(leaves), schedule, None))
    /\ vault = VaultFunds
    /\ user_details = NoAccounts
    /\ actual_wallet = OwnWallets
    /\ refund_request = NoAccounts
    /\ refund_claim_request = NoAccounts
    /\ Configured
    /\ paid = [w \in Wallets |-> << >>]
    /\ outcome = [op |-> "initialize", err |-> "Ok"]

DoTick == Tick(TickStep, MaxNow)

DoInitUserDetails == \E user \in Signers : InitUserDetails(user)

DoRefundClaimRequest == \E user \in Signers : RefundClaimRequest(user, Entitlement(user))

\* ------------------------------------------------------------------------
\* Spec: a recipient claims its own leaf as the schedule unlocks
\* ------------------------------------------------------------------------

Init == InitOver({Scenario, Thirds, Thirds99}, {TreeLeaves}, StartNow)

DoClaim == \E user \in Signers : Claim(user, OwnClaimArgs(user))

Next ==
    \/ DoTick /\ Settled
    \/ DoInitUserDetails /\ Settled
    \/ DoRefundClaimRequest /\ Settled
    \/ DoClaim /\ Settled

Spec == Init /\ [][Next]_vars

\* the ledger record of a user in the current generation
UdOf(user) == user_details[<<distributor.merkle_index, user>>]

UserDetails(last_claimed_at_ts, claimed_amount) ==
    [last_claimed_at_ts |-> last_claimed_at_ts, claimed_amount |-> claimed_amount]

\* this step is a claim signed by `user` that passes the account constraints
ClaimStepBy(user) ==
    /\ Has(user_details, <<distributor.merkle_index, user>>)
    /\ Has(refund_claim_request, user)
    /\ outcome'.op = "claim"
    /\ outcome'.user = user

\* a claim step that leaves the vault, the ledger and the accounts alone
ChangesNothing ==
    UNCHANGED <<now, distributor, vault, user_details, actual_wallet, refund_request,
                refund_claim_request, leaves, paid>>

\* C1 (as stated): in a generation, the sum of the amounts that claims
\* moved from the vault for a recipient never exceeds the entitlement of
\* the recipient's leaf.
NoOverpayment == \A w \in Wallets : BLe(paid[w], Entitlement(w))

\* this step is a claim of A for its leaf of 1000 in the reference scenario,
\* at at_now, on the ledger record `ledger`
ScenarioClaim(at_now, ledger) ==
    /\ distributor.vesting.schedule = Scenario
    /\ now = N(at_now)
    /\ ClaimStepBy("A")
    /\ UdOf("A") = ledger
    /\ outcome'.args.amount = N(1000)

\* the claim of this step moved `amount` and left the ledger at claimed_after
ScenarioPaid(amount, claimed_after) ==
    /\ outcome'.err = "Ok"
    /\ outcome'.amount = N(amount)
    /\ vault' = BSub(vault, N(amount))
    /\ UdOf("A")' = UserDetails(now, N(claimed_after))

ScenarioSteps ==
    /\ ScenarioClaim(1500, NewUserDetails) => ScenarioPaid(500, 500)
    /\ ScenarioClaim(1500, UserDetails(N(1500), N(500))) =>
           outcome'.err = "NothingToClaim" /\ ChangesNothing
    /\ ScenarioClaim(2000, UserDetails(N(1500), N(500))) => ScenarioPaid(500, 1000)

\* C2: in the reference scenario (one period of 100%, start 1000, interval
\* 100, 10 times, entitlement 1000) the first claim, at 1500, transfers 500;
\* a second claim at 1500 fails with NothingToClaim and changes nothing; a
\* following claim at 2000 transfers the remaining 500 and leaves
\* claimed_amount = 1000.
ReferenceScenario == [][ScenarioSteps]_vars

\* C2 witness: the claim at 2000 of the reference scenario has paid the
\* second 500
ReferenceScenarioDone ==
    /\ distributor.vesting.schedule = Scenario
    /\ now = N(2000)
    /\ outcome.op = "claim" /\ outcome.err = "Ok" /\ outcome.amount = N(500)
    /\ UdOf("A") = UserDetails(N(2000), N(1000))
    /\ paid["A"] = N(1000)

\* this step is a further claim of `user` at the instant of its last
\* successful claim
RepeatedClaim(user) ==
    /\ ClaimStepBy(user)
    /\ UdOf(user).last_claimed_at_ts = now

\* the repeated claim of this step fails with one of `errors`, moving nothing
RepeatFailsWith(errors) ==
    \A user \in Signers :
        RepeatedClaim(user) => outcome'.err \in errors /\ ChangesNothing

\* C3 (as stated): after a successful claim at `now`, a further claim of the
\* same recipient at the same `now` fails with NothingToClaim or
\* AlreadyClaimed and transfers nothing.
NoDoubleClaimAsStated == [][RepeatFailsWith({"NothingToClaim", "AlreadyClaimed"})]_vars

\* C3: after a successful claim at `now`, a further claim of the same
\* recipient at the same `now` transfers nothing and fails with
\* NothingToClaim, AlreadyClaimed or, when every period that is not
\* airdropped has ended before `now`, ScheduleStopped.
NoDoubleClaim ==
    [][RepeatFailsWith({"NothingToClaim", "AlreadyClaimed", "ScheduleStopped"})]_vars

\* C3 witness: a repeated claim after the end of a schedule of 99 per cent
\* has failed with ScheduleStopped
RepeatStopped ==
    /\ outcome.op = "claim" /\ outcome.err = "ScheduleStopped"
    /\ Has(user_details, <<distributor.merkle_index, "A">>)
    /\ UdOf("A").last_claimed_at_ts = now
    /\ paid["A"] = N(990)

\* ------------------------------------------------------------------------
\* SpecGate: claims with any arguments, pauses and a replacement of the root
\* ------------------------------------------------------------------------

\* the step of the clock and the last generation of SpecGate
GateTickStep == 500
MaxIndex == 1

\* the leaves of the tree of the next root: the entitlement of A is lowered
NextLeaves == <<Leaf("A", N(700)), Leaf("B", EntB)>>

GateInit == InitOver({Thirds}, {TreeLeaves}, StartNow)

GateTick == Tick(GateTickStep, MaxNow)

\* a claim with a wallet, the amount of a leaf and the path of a leaf
DoClaimAny ==
    \E user \in Signers, original_wallet \in Wallets :
        \E of_leaf \in 1..Len(leaves), path_of \in 1..Len(leaves) :
            Claim(user, ClaimArgs(leaves[of_leaf].amount, MerklePath(leaves, path_of),
                                  original_wallet))

\* a claim of the entitlement of the tree that was replaced
DoClaimStale ==
    \E user \in Signers :
        Claim(user, ClaimArgs(EntA, MerklePath(TreeLeaves, PositionOf(TreeLeaves, user)),
                              user))

DoSetPaused == \E paused \in BOOLEAN : SetPaused(paused)

DoUpdateRoot ==
    /\ BLt(distributor.merkle_index, N(MaxIndex))
    /\ \E unpause \in BOOLEAN :
          UpdateRoot(UpdateRootArgs(MerkleRoot(NextLeaves), unpause), NextLeaves)

GateNext ==
    \/ GateTick /\ Settled
    \/ DoInitUserDetails /\ Settled
    \/ DoRefundClaimRequest /\ Settled
    \/ DoClaimAny /\ Settled
    \/ DoClaimStale /\ Settled
    \/ DoSetPaused /\ Settled
    \/ DoUpdateRoot /\ Settled

SpecGate == GateInit /\ [][GateNext]_vars

\* the checks of claim before AlreadyClaimed pass for `user`: the
\* constraints of Claim::actual_wallet and the gates of lines 441-447
GatesBeforeLedgerPass(user, args) ==
    /\ actual_wallet[args.original_wallet].actual = user
    /\ ~BLt(BAdd(refund_claim_request[user].time_stamp, N(REFUND_TIME_LIMIT)), now)
    /\ ~distributor.paused
    /\ validate(distributor.vesting.schedule).ok

\* a claim of `user` with `args` on a ledger record that has reached
\* args.amount ends with `err`: as C5 states it
LedgerGateAsStated(user, args, err) ==
    BLe(args.amount, UdOf(user).claimed_amount) => err = "AlreadyClaimed" /\ ChangesNothing

\* C5 (as stated): a claim whose ledger record has claimed_amount >=
\* args.amount fails with AlreadyClaimed and changes neither ledger nor vault.
AlreadyClaimedAsStated ==
    [][\A user \in Signers :
          ClaimStepBy(user) =>
              \E args \in {outcome'.args}, err \in {outcome'.err} :
                  LedgerGateAsStated(user, args, err)]_vars

LedgerGate(user, args, err) ==
    /\ BLe(args.amount, UdOf(user).claimed_amount) => err # "Ok" /\ ChangesNothing
    /\ BLe(args.amount, UdOf(user).claimed_amount) /\ GatesBeforeLedgerPass(user, args) =>
           err = "AlreadyClaimed"
    /\ err = "Ok" => BLt(UdOf(user).claimed_amount, args.amount)

\* C5: a claim whose ledger record has claimed_amount >= args.amount fails
\* and changes neither ledger nor vault; it fails with AlreadyClaimed when
\* the checks made before pass (the claimant is the actual wallet, the
\* request for the claim is in time, the distribution is not paused, the
\* schedule is valid); a claim succeeds only when claimed_amount <
\* args.amount.
AlreadyClaimedGate ==
    [][\A user \in Signers :
          ClaimStepBy(user) =>
              \E args \in {outcome'.args}, err \in {outcome'.err} :
                  LedgerGate(user, args, err)]_vars

\* C5 witness: a claim on a record that reached the entitlement of the leaf
\* has failed with AlreadyClaimed
AlreadyClaimedSeen ==
    /\ outcome.op = "claim" /\ outcome.err = "AlreadyClaimed"
    /\ ~distributor.paused
    /\ BLe(outcome.args.amount, UdOf(outcome.user).claimed_amount)
    /\ outcome.args.amount = Entitlement(outcome.user)

\* the ledger records that exist are not changed by this step
RecordsKept == \A key \in DOMAIN user_details : user_details'[key] = user_details[key]

PausedStep ==
    distributor.paused =>
        /\ outcome'.op = "claim" => outcome'.err # "Ok"
        /\ RecordsKept
        /\ vault' = vault
        /\ ~distributor'.paused =>
               outcome'.op \in {"set_paused", "update_root"} /\ outcome'.err = "Ok"

\* C6: while distributor.paused is true no claim succeeds, no ledger record
\* changes and the vault is not debited; the pause ends only by set_paused
\* or by update_root.
PauseBlocksClaims == [][PausedStep]_vars

\* C6 witness: a claim of a recipient that has claimed before, for a leaf
\* that is not yet paid in full, has failed with Paused
PausedClaimSeen ==
    /\ distributor.paused
    /\ outcome.op = "claim" /\ outcome.err = "Paused"
    /\ BLt(<< >>, UdOf(outcome.user).claimed_amount)
    /\ BLt(UdOf(outcome.user).claimed_amount, outcome.args.amount)
    /\ BLt(UdOf(outcome.user).last_claimed_at_ts, now)

\* the fold of the proof of `args` over the leaf H(original_wallet, amount)
\* is not the root
FoldMisses(args) ==
    ProofFold(KeccakLeaf(args.original_wallet, args.amount), args.merkle_proof)
        # distributor.merkle_root

\* the checks of claim before check_proof pass (lines 441-472 and the
\* constraints of Claim::actual_wallet)
GatesBeforeProofPass(user, args) ==
    /\ GatesBeforeLedgerPass(user, args)
    /\ BLt(UdOf(user).claimed_amount, args.amount)
    /\ ~ClaimRefundGate(args)

\* a claim of `user` with `args` whose proof misses the root ends with
\* `err`: as C8 states it
ProofGateOnAsStated(user, args, err) ==
    FoldMisses(args) => err = "InvalidProof" /\ ChangesNothing

ProofGateOn(user, args, err) ==
    /\ FoldMisses(args) => err # "Ok" /\ ChangesNothing
    /\ FoldMisses(args) /\ GatesBeforeProofPass(user, args) => err = "InvalidProof"
    /\ actual_wallet[args.original_wallet].actual # user =>
           err = "WrongClaimer" /\ ChangesNothing
    /\ err = "Ok" => args.original_wallet = user /\ args.amount = Entitlement(user)

LeafPool == {Leaf("A", EntA), Leaf("B", EntB), Leaf("C", EntB), Leaf("A", EntB)}

\* the lists of one to four different leaves of the pool
LeafLists ==
    {leaf_list \in UNION {[1..size -> LeafPool] : size \in 1..Cardinality(LeafPool)} :
        \A i, j \in 1..Len(leaf_list) : i # j => leaf_list[i] # leaf_list[j]}

RECURSIVE NodesFrom(_)
\* the digests of a level of a tree and of the levels above it
NodesFrom(level) ==
    {level[i] : i \in 1..Len(level)} \cup
        (IF Len(level) <= 1 THEN {} ELSE NodesFrom(LevelUp(level)))

\* the values that take the place of a digest: the nodes of the tree, the
\* digest of a leaf that is not in it, and a value that is no digest
Replacements == NodesFrom(LeafHashes(leaves)) \cup {KeccakLeaf("C", EntA), <<7, 3>>}

ProofInit == InitOver({Thirds}, LeafLists, StartNow)

\* check_proof for the leaf at `position` with a path and a root; a tree
\* answers one check, as the answer does not depend on the checks before
CheckProof(position, proof, root) ==
    /\ outcome.op = "initialize"
    /\ outcome' = [op |-> "check_proof",
                   err |-> ErrOf(check_proof(leaves[position].wallet,
                                             leaves[position].amount, root, proof)),
                   position |-> position, proof |-> proof, root |-> root]
    /\ UNCHANGED <<now, distributor, vault, user_details, actual_wallet, refund_request,
                   refund_claim_request, leaves, paid>>

DoCheckPath ==
    \E position \in 1..Len(leaves) :
        CheckProof(position, MerklePath(leaves, position), distributor.merkle_root)

DoCheckTamperedPath ==
    \E position \in 1..Len(leaves) :
        \E path \in {MerklePath(leaves, position)} :
            \E at \in 1..Len(path), other \in Replacements :
                /\ other # path[at]
                /\ CheckProof(position, [path EXCEPT ![at] = other],
                              distributor.merkle_root)

DoCheckTamperedRoot ==
    \E position \in 1..Len(leaves), other \in Replacements :
        /\ other # distributor.merkle_root
        /\ CheckProof(position, MerklePath(leaves, position), other)

ProofNext ==
    \/ DoCheckPath /\ Settled
    \/ DoCheckTamperedPath /\ Settled
    \/ DoCheckTamperedRoot /\ Settled

SpecProof == ProofInit /\ [][ProofNext]_vars

\* two paths differ at one position
DifferAtOne(path1, path2) ==
    /\ Len(path1) = Len(path2)
    /\ Cardinality({at \in 1..Len(path1) : path1[at] # path2[at]}) = 1

\* the proof and the root that were checked are those of the tree
PathOfTree == outcome.proof = MerklePath(leaves, outcome.position)
RootOfTree == outcome.root = MerkleRoot(leaves)

\* C7: for every list of leaves and every leaf of it, check_proof accepts
\* the sibling path of the leaf in the sorted-pair tree over the list
\* against the root of the tree; with one element of the path, or the root,
\* replaced by a different value it fails with InvalidProof.
ProofRoundTrip ==
    outcome.op = "check_proof" =>
        /\ PathOfTree /\ RootOfTree => outcome.err = "Ok"
        /\ DifferAtOne(outcome.proof, MerklePath(leaves, outcome.position)) /\ RootOfTree
               => outcome.err = "InvalidProof"
        /\ PathOfTree /\ ~RootOfTree => outcome.err = "InvalidProof"

\* C7 witness: in a tree of four leaves, the path of the last leaf with its
\* second element replaced by another node of the tree was refused
TamperedPathRefused ==
    /\ outcome.op = "check_proof" /\ outcome.err = "InvalidProof"
    /\ Len(leaves) = Cardinality(LeafPool)
    /\ outcome.position = Len(leaves)
    /\ RootOfTree
    /\ outcome.proof[1] = MerklePath(leaves, outcome.position)[1]
    /\ outcome.proof[2] \in NodesFrom(LeafHashes(leaves))
    /\ outcome.proof[2] # MerklePath(leaves, outcome.position)[2]

\* ------------------------------------------------------------------------
\* SpecBps: bps_available_to_claim of a ledger record as the clock moves
\* ------------------------------------------------------------------------

\* the clock of SpecBps: its first value, its step and the number of steps
BpsStart == 900
BpsStep == 50
BpsTicks == 26

\* three periods, the second airdropped
Mixed ==
    <<Period(Pct(30), N(1000), N(100), N(3), FALSE),
      Period(Pct(30), N(1400), N(100), N(1), TRUE),
      Period(Pct(40), N(1600), N(200), N(2), FALSE)>>

\* six unlocks of a sixth, after an airdropped per cent
Sixths ==
    <<Period(Pct(1), N(950), N(50), N(1), TRUE),
      Period(Pct(99), N(1100), N(150), N(6), FALSE)>>

\* the instants of the last claim of the ledger records
LastClaims == {<< >>, N(1000), N(1050), N(1300), N(1500), N(1650), N(2000)}

BpsInit ==
    /\ now = N(BpsStart)
    /\ leaves = TreeLeaves
    /\ \E schedule \in {Scenario, Thirds, Mixed, Sixths} :
          distributor = InitializedDistributor(
                            InitializeArgs(MerkleRoot(TreeLeaves), schedule, None))
    /\ vault = VaultFunds
    /\ \E last_claimed_at_ts \in LastClaims :
          user_details = Put(NoAccounts, <<(<< >>), "A">>,
                             UserDetails(last_claimed_at_ts, << >>))
    /\ actual_wallet = OwnWallets
    /\ refund_request = NoAccounts
    /\ refund_claim_request = NoAccounts
    /\ Configured
    /\ paid = [w \in Wallets |-> << >>]
    /\ outcome = [op |-> "initialize", err |-> "Ok"]

BpsTick == Tick(BpsStep, BpsStart + BpsStep * BpsTicks)

\* the fractions of a result of bps_available_to_claim, as it is seen
Observed(available) ==
    [op |-> "bps_available_to_claim", err |-> ErrOf(available),
     bps |-> IF available.ok THEN available.v ELSE << >>]

\* bps_available_to_claim of the record of A, now
DoBps ==
    /\ outcome' = Observed(bps_available_to_claim(distributor.vesting.schedule, now,
                                                  UdOf("A").last_claimed_at_ts))
    /\ UNCHANGED <<now, distributor, vault, user_details, actual_wallet, refund_request,
                   refund_claim_request, leaves, paid>>

BpsNext ==
    \/ BpsTick /\ Settled
    \/ DoBps /\ Settled

SpecBps == BpsInit /\ [][BpsNext]_vars

\* Decimal <= Decimal and Decimal < Decimal
DecLe(dec1, dec2) ==
    BLe(MantAt(dec1, MaxScale(dec1, dec2)), MantAt(dec2, MaxScale(dec1, dec2)))
DecLt(dec1, dec2) == ~DecLe(dec2, dec1)

\* the instants of the clock of SpecBps up to now
EarlierInstants ==
    {instant \in {N(BpsStart + BpsStep * tick) : tick \in 0..BpsTicks} : BLe(instant, now)}

\* a result of bps_available_to_claim, if it succeeded, is below the
\* fractions `later` in both components
BelowIn(earlier, later) ==
    earlier.ok => DecLe(earlier.v[1], later[1]) /\ DecLe(earlier.v[2], later[2])

\* C4: for a fixed valid schedule and a fixed ledger record, the claimable
\* fraction and the airdropped fraction of bps_available_to_claim at an
\* instant are not below those at an earlier instant, when both calls
\* succeed.
MonotoneUnlock ==
    outcome.op = "bps_available_to_claim" /\ outcome.err = "Ok" =>
        \A instant \in EarlierInstants :
            BelowIn(bps_available_to_claim(distributor.vesting.schedule, instant,
                                           UdOf("A").last_claimed_at_ts),
                    outcome.bps)

\* C4 witness: for a record that claimed at 1300, both fractions of the
\* schedule of three periods have grown since the start of the clock
BothFractionsGrown ==
    /\ outcome.op = "bps_available_to_claim" /\ outcome.err = "Ok"
    /\ distributor.vesting.schedule = Mixed
    /\ UdOf("A").last_claimed_at_ts = N(1300)
    /\ DecLt(DecZERO, outcome.bps[1])
    /\ DecLt(DecZERO, outcome.bps[2])
    /\ bps_available_to_claim(Mixed, N(BpsStart), N(1300)).ok

\* ------------------------------------------------------------------------
\* SpecValidate: initialize with schedules of every kind
\* ------------------------------------------------------------------------

\* the fields of the periods that are tried
TriedPeriods ==
    {Period(token_percentage, start_ts, interval_sec, times, FALSE) :
        token_percentage \in {Pct(50), Pct(100), U64_MAX},
        start_ts \in {<< >>, N(10), N(40), U64_MAX},
        interval_sec \in {<< >>, N(10), U64_MAX},
        times \in {<< >>, N(2), U64_MAX}}

\* the periods that are tried after a first one
TriedSecondPeriods ==
    {Period(token_percentage, start_ts, N(10), times, FALSE) :
        token_percentage \in {Pct(50), U64_MAX},
        start_ts \in {N(10), N(30), N(40)},
        times \in {N(2), N(5)}}

TriedSchedules ==
    {<< >>} \cup {<<first>> : first \in TriedPeriods}
            \cup {<<first, second>> : first \in TriedPeriods, second \in TriedSecondPeriods}

\* an initialize is sent to a distributor account that is not initialized
ValidateInit ==
    /\ now = N(StartNow)
    /\ leaves = TreeLeaves
    /\ distributor = NoDistributor
    /\ vault = VaultFunds
    /\ user_details = NoAccounts
    /\ actual_wallet = OwnWallets
    /\ refund_request = NoAccounts
    /\ refund_claim_request = NoAccounts
    /\ Configured
    /\ paid = [w \in Wallets |-> << >>]
    /\ \E schedule \in TriedSchedules :
          outcome = InFlight("initialize",
                             InitializeArgs(MerkleRoot(TreeLeaves), schedule, None))

\* the initialize that was sent is processed
DoInitialize ==
    /\ outcome.op = "initialize"
    /\ outcome.err = "InFlight"
    /\ Initialize(outcome.args)

InitializeNext ==
    \/ DoInitialize /\ Settled

SpecValidate == ValidateInit /\ [][InitializeNext]_vars

\* the end of a period, as a number of any size
ExactEnd(period) == BAdd(period.start_ts, BMul(period.times, period.interval_sec))

\* the sum of token_percentage of the first `upto` periods, of any size
RECURSIVE ExactTotal(_, _)
ExactTotal(schedule, upto) ==
    IF upto = 0 THEN << >>
    ELSE BAdd(ExactTotal(schedule, upto - 1), schedule[upto].token_percentage)

\* the end before a period: of the period before it, and 0 before the first
EndBefore(schedule, at) == IF at = 1 THEN << >> ELSE ExactEnd(schedule[at - 1])

\* the codes of the defects of a schedule
Defects(schedule) ==
    {code \in {"EmptySchedule", "EmptyPeriod", "InvalidIntervalDuration",
               "InvalidScheduleOrder", "IntegerOverflow",
               "PercentageDoesntCoverAllTokens"} :
        \/ code = "EmptySchedule" /\ schedule = << >>
        \/ code = "EmptyPeriod" /\ \E at \in 1..Len(schedule) : schedule[at].times = << >>
        \/ code = "InvalidIntervalDuration" /\
               \E at \in 1..Len(schedule) : schedule[at].interval_sec = << >>
        \/ code = "InvalidScheduleOrder" /\
               \E at \in 1..Len(schedule) :
                   ~BLt(EndBefore(schedule, at), schedule[at].start_ts)
        \/ code = "IntegerOverflow" /\
               \E at \in 1..Len(schedule) :
                   \/ BLt(U64_MAX, ExactEnd(schedule[at]))
                   \/ BLt(U64_MAX, ExactTotal(schedule, at))
        \/ code = "PercentageDoesntCoverAllTokens" /\ schedule # << >> /\
               \/ BLt(ExactTotal(schedule, Len(schedule)), Pct(99))
               \/ BLt(Pct(100), ExactTotal(schedule, Len(schedule)))}

\* a schedule with defects was rejected with the code of one of them
RejectedFor(defects, err) == defects # {} => err \in defects

\* C9: validate rejects every schedule that is empty, has a period with
\* times = 0 or interval_sec = 0, has a period whose start_ts does not
\* exceed the end of the period before it (0 before the first), has an end
\* or a sum of percentages above u64::MAX, or a sum of percentages outside
\* [99%, 100%]; the error is the code of one of these defects.
ValidateRejects ==
    outcome.op = "initialize" /\ outcome.err # "InFlight" =>
        /\ RejectedFor(Defects(outcome.args.schedule), outcome.err)
        /\ outcome.err # "Ok" => distributor = NoDistributor

\* C9 witness: a schedule whose second period starts at the end of the
\* first, and that has no other defect, was rejected
OrderRejected ==
    /\ outcome.op = "initialize" /\ outcome.err = "InvalidScheduleOrder"
    /\ Len(outcome.args.schedule) = 2
    /\ outcome.args.schedule[2].start_ts = ExactEnd(outcome.args.schedule[1])
    /\ Defects(outcome.args.schedule) = {"InvalidScheduleOrder"}

\* ------------------------------------------------------------------------
\* SpecSchedule: the schedule is edited before and after the vesting starts
\* ------------------------------------------------------------------------

\* the clock at the start of SpecSchedule and the longest schedule
ScheduleStart == 500
MaxPeriods == 3

\* the change lists that are submitted
ChangeLists ==
    {<<Update(<< >>, Period(Pct(100), N(1500), N(250), N(2), FALSE))>>,
     <<Update(<< >>, Period(Pct(60), N(1000), N(250), N(2), FALSE)),
       Push(Period(Pct(40), N(1750), N(250), N(1), FALSE))>>,
     <<Push(Period(Pct(50), N(3000), N(100), N(1), FALSE))>>,
     <<Remove(<< >>)>>,
     <<Remove(N(MaxPeriods))>>}

ScheduleInit == InitOver({Thirds}, {TreeLeaves}, ScheduleStart)

DoUpdateSchedule ==
    \E changes \in ChangeLists : UpdateSchedule(UpdateScheduleArgs(changes))

DoUpdateSchedule2 ==
    /\ Len(distributor.vesting.schedule) < MaxPeriods
    /\ \E changes \in ChangeLists : UpdateSchedule2(UpdateScheduleArgs(changes))

ScheduleNext ==
    \/ GateTick /\ Settled
    \/ DoUpdateSchedule /\ Settled
    \/ DoUpdateSchedule2 /\ Settled

SpecSchedule == ScheduleInit /\ [][ScheduleNext]_vars

\* C10 (as stated): when the first period has started, a schedule update
\* through update_schedule or update_schedule2 fails with
\* VestingAlreadyStarted and leaves the stored schedule as it is.
NoEditAfterStart ==
    [][has_started(distributor.vesting.schedule, now)
       /\ outcome'.op \in {"update_schedule", "update_schedule2"} =>
           /\ outcome'.err = "VestingAlreadyStarted"
           /\ distributor'.vesting.schedule = distributor.vesting.schedule]_vars

\* the stored schedule after a schedule update: valid when the update
\* succeeded, the schedule before the call when it failed
RevalidatedOrKept(before, stored, err) ==
    IF err = "Ok" THEN validate(stored).ok ELSE stored = before

\* C11 (as stated): after every successful change-list update (update_schedule
\* or update_schedule2) the stored schedule passes validate(), and a rejected
\* change list leaves the stored schedule exactly as it was before the call.
ScheduleRevalidated ==
    [][outcome'.op \in {"update_schedule", "update_schedule2"} =>
          \E stored \in {distributor'.vesting.schedule}, err \in {outcome'.err} :
              RevalidatedOrKept(distributor.vesting.schedule, stored, err)]_vars

\* ------------------------------------------------------------------------
\* SpecInvalid: claims on a distributor whose stored schedule may be invalid
\* ------------------------------------------------------------------------

\* half of the tokens in two unlocks
Half == Period(Pct(50), N(1000), N(250), N(2), FALSE)

\* the change lists that the admin commits through update_schedule2
UncheckedChangeLists ==
    {<<Push(Thirds[1])>>,
     <<Push(Half)>>,
     <<Update(<< >>, Period(Pct(100), N(1000), << >>, N(3), FALSE))>>,
     <<Remove(<< >>)>>}

\* a distribution after initialize2 (an empty schedule) or after initialize
InvalidInit ==
    /\ now = N(StartNow)
    /\ leaves = TreeLeaves
    /\ distributor \in
           {Initialized2Distributor(Initialize2Args(MerkleRoot(leaves), N(1), None)),
            InitializedDistributor(InitializeArgs(MerkleRoot(leaves), Thirds, None))}
    /\ vault = VaultFunds
    /\ user_details = NoAccounts
    /\ actual_wallet = OwnWallets
    /\ refund_request = NoAccounts
    /\ refund_claim_request = NoAccounts
    /\ Configured
    /\ paid = [w \in Wallets |-> << >>]
    /\ outcome = [op |-> "initialize", err |-> "Ok"]

DoCommitUnchecked ==
    /\ Len(distributor.vesting.schedule) < MaxPeriods - 1
    /\ \E changes \in UncheckedChangeLists : UpdateSchedule2(UpdateScheduleArgs(changes))

InvalidNext ==
    \/ GateTick /\ Settled
    \/ DoInitUserDetails /\ Settled
    \/ DoRefundClaimRequest /\ Settled
    \/ DoClaim /\ Settled
    \/ DoSetPaused /\ Settled
    \/ DoCommitUnchecked /\ Settled

SpecInvalid == InvalidInit /\ [][InvalidNext]_vars

\* a claim of `user` on a stored schedule that validate() refuses with
\* `valid` ends with `err`: as C12 states it
RevalidationAsStated(valid, err) ==
    ~valid.ok => err = valid.err /\ ChangesNothing

\* C12 (as stated): whenever the stored schedule does not pass validate(),
\* every claim fails with the error of validate() and neither the ledger nor
\* the vault changes.
ClaimRevalidatesAsStated ==
    [][\A user \in Signers :
          ClaimStepBy(user) =>
              \E valid \in {validate(distributor.vesting.schedule)},
                 err \in {outcome'.err} :
                  RevalidationAsStated(valid, err)]_vars

\* the checks of claim before validate pass for `user`: the constraints of
\* Claim::actual_wallet and the gates of lines 441-446
GatesBeforeValidatePass(user, args) ==
    /\ actual_wallet[args.original_wallet].actual = user
    /\ ~BLt(BAdd(refund_claim_request[user].time_stamp, N(REFUND_TIME_LIMIT)), now)
    /\ ~distributor.paused

Revalidation(user, args, valid, err) ==
    ~valid.ok =>
        /\ err # "Ok"
        /\ ChangesNothing
        /\ GatesBeforeValidatePass(user, args) => err = valid.err

\* C12: whenever the stored schedule does not pass validate(), every claim
\* fails and neither the ledger nor the vault changes; the error is the one
\* of validate() when the checks made before it pass (the claimant is the
\* actual wallet, the request for the claim is in time, the distribution is
\* not paused).
ClaimRevalidates ==
    [][\A user \in Signers :
          ClaimStepBy(user) =>
              \E valid \in {validate(distributor.vesting.schedule)},
                 args \in {outcome'.args}, err \in {outcome'.err} :
                  Revalidation(user, args, valid, err)]_vars

\* C12 witness: after the clock has reached the first unlock of a stored
\* schedule that covers half of the tokens, a claim of a recipient for its
\* own leaf was refused with the error of validate()
InvalidScheduleRefused ==
    /\ distributor.vesting.schedule = <<Half>>
    /\ BLe(end_ts(Half).v, now)
    /\ ~distributor.paused
    /\ outcome.op = "claim" /\ outcome.err = "PercentageDoesntCoverAllTokens"
    /\ outcome.args = OwnClaimArgs(outcome.user)

\* C12 witness of the other case: a claim on the empty schedule that
\* initialize2 leaves was refused with EmptySchedule
EmptyScheduleRefused ==
    /\ distributor.vesting.schedule = << >>
    /\ outcome.op = "claim" /\ outcome.err = "EmptySchedule"

\* ------------------------------------------------------------------------
\* SpecStop: claims while the vesting is stopped early by stop_vesting2
\* ------------------------------------------------------------------------

\* a period that has ended, one in progress and one to come at 1500
Staged ==
    <<Period(Pct(20), N(1000), N(100), N(2), FALSE),
      Period(Pct(50), N(1250), N(250), N(2), FALSE),
      Period(Pct(30), N(2000), N(100), N(1), FALSE)>>

\* the schedules that are stopped
StopSchedules == {Thirds, Staged}

\* entitlements whose every unlock is a whole number of tokens
StopLeaves == <<Leaf("A", N(900)), Leaf("B", EntB)>>

\* the last value of the clock of SpecStop: the end of the period of Thirds
StopMaxNow == 1750

StopInit == InitOver(StopSchedules, {StopLeaves}, StartNow)

StopTick == Tick(TickStep, StopMaxNow)

DoStopVesting2 == StopVesting2

StopNext ==
    \/ StopTick /\ Settled
    \/ DoInitUserDetails /\ Settled
    \/ DoRefundClaimRequest /\ Settled
    \/ DoClaim /\ Settled
    \/ DoStopVesting2 /\ Settled

SpecStop == StopInit /\ [][StopNext]_vars

\* the schedule a stored schedule had at initialize: a stop keeps the number
\* of periods
OriginalOf(schedule) ==
    CHOOSE original \in StopSchedules : Len(original) = Len(schedule)

\* ceil(entitlement x the fraction that `unlocked` tells)
UnlockedOf(entitlement, unlocked) == ceil_amount(entitlement, unlocked.v[1]).v

\* what a schedule unlocks of an entitlement at at_now for a fresh ledger
FreshUnlock(schedule, at_now, entitlement) ==
    UnlockedOf(entitlement, bps_available_to_claim(schedule, at_now, << >>))

\* C13 (as stated): with claims interleaved with stop_vesting2, the amount
\* transferred to a recipient up to now never exceeds what the unmodified
\* schedule unlocks at now for a fresh ledger: ceil(entitlement x unlock
\* fraction of the original schedule at now).
EarlyStopOnlyReduces ==
    \A w \in Wallets :
        \/ paid[w] = << >>
        \/ BLe(paid[w],
               FreshUnlock(OriginalOf(distributor.vesting.schedule), now, Entitlement(w)))

\* ------------------------------------------------------------------------
\* SpecRescale: the vesting is stopped by stop_vesting and stop_vesting2, on
\* valid schedules and on schedules with periods that overlap
\* ------------------------------------------------------------------------

\* a period that runs while the period of Thirds runs
Overlap == Period(Pct(10), N(1100), N(500), N(1), FALSE)

RescaleInit == InitOver(StopSchedules, {TreeLeaves}, StartNow)

DoStopVesting == StopVesting

\* the admin adds a period that overlaps, which update_schedule2 lets pass
DoPushOverlap ==
    /\ Len(distributor.vesting.schedule) < MaxPeriods
    /\ UpdateSchedule2(UpdateScheduleArgs(<<Push(Overlap)>>))

RescaleNext ==
    \/ DoTick /\ Settled
    \/ DoStopVesting /\ Settled
    \/ DoStopVesting2 /\ Settled
    \/ DoPushOverlap /\ Settled

SpecRescale == RescaleInit /\ [][RescaleNext]_vars

\* times * interval_sec of a period
DurationOf(period) == BMul(period.times, period.interval_sec)

\* a period after the stop is not longer and holds no more than before
NotGrown(before, after) ==
    /\ BLe(DurationOf(after), DurationOf(before))
    /\ BLe(after.token_percentage, before.token_percentage)

RescaledDown(before, after, err) ==
    IF err = "Ok"
    THEN /\ Len(after) = Len(before)
         /\ \A index \in 1..Len(before) : NotGrown(before[index], after[index])
    ELSE after = before

\* C14: every period of the schedule that a successful stop_vesting2 leaves
\* has a duration times * interval_sec and a token_percentage that are not
\* above those it had before the call; a call that fails leaves the schedule
\* as it was.
RescaleMonotone ==
    [][outcome'.op = "stop_vesting2" =>
          \E after \in {distributor'.vesting.schedule}, err \in {outcome'.err} :
              RescaledDown(distributor.vesting.schedule, after, err)]_vars

\* C14 witness: stop_vesting2 at 1500 has re-scaled the period of Thirds,
\* 750 seconds long, to one interval of 500 seconds with less than 100 per
\* cent and more than 66 per cent
RescaledAtTwoThirds ==
    /\ outcome.op = "stop_vesting2" /\ outcome.err = "Ok"
    /\ now = N(1500)
    /\ Len(distributor.vesting.schedule) = 1
    /\ distributor.vesting.schedule[1].start_ts = N(1000)
    /\ distributor.vesting.schedule[1].times = N(1)
    /\ distributor.vesting.schedule[1].interval_sec = N(500)
    /\ BLt(Pct(66), distributor.vesting.schedule[1].token_percentage)
    /\ BLt(distributor.vesting.schedule[1].token_percentage, Pct(67))

\* the period that Policy B leaves of `period`, whose end is period_end_ts,
\* as C15 states it: a period to come is marked, the period in progress
\* (start_ts <= now < end) is re-scaled, a period that has ended is kept
PolicyBPeriod(period, at_now, period_end_ts) ==
    IF BLt(at_now, period.start_ts) THEN [period EXCEPT !.airdropped = TRUE]
    ELSE IF BLt(at_now, period_end_ts)
    THEN [period EXCEPT
              !.times = <<1>>,
              !.interval_sec = BSub(at_now, period.start_ts),
              !.token_percentage =
                  new_token_percentage(period, BSub(at_now, period.start_ts),
                                       BSub(period_end_ts, period.start_ts)).v]
    ELSE period

\* the periods in progress at at_now: start_ts <= now < end
InProgress(schedule, at_now) ==
    {index \in 1..Len(schedule) :
        /\ BLe(schedule[index].start_ts, at_now)
        /\ BLt(at_now, end_ts(schedule[index]).v)}

PolicyBEffect(before, after, err, at_now) ==
    /\ Cardinality(InProgress(before, at_now)) > 1 => err = "InvalidSchedule"
    /\ err = "Ok" =>
           after = [index \in 1..Len(before) |->
                       PolicyBPeriod(before[index], at_now, end_ts(before[index]).v)]

\* C15 (as stated): a successful stop_vesting2 at now marks every period with
\* start_ts > now as airdropped, re-scales the one period in progress
\* (start_ts <= now < end) to times = 1, interval_sec = now - start_ts and
\* token_percentage = old percentage x (now - start_ts) / (old duration), and
\* leaves every period that has ended (end <= now) unchanged; with more than
\* one period in progress it fails with InvalidSchedule.
PolicyB ==
    [][outcome'.op = "stop_vesting2" =>
          \E after \in {distributor'.vesting.schedule}, err \in {outcome'.err} :
              PolicyBEffect(distributor.vesting.schedule, after, err, now)]_vars

\* a period after stop_vesting at at_now: the flag is set when the period
\* starts after at_now and kept otherwise, the other fields are kept
FrozenOnly(before, after, at_now) ==
    /\ after.token_percentage = before.token_percentage
    /\ after.start_ts = before.start_ts
    /\ after.interval_sec = before.interval_sec
    /\ after.times = before.times
    /\ after.airdropped = IF BLt(at_now, before.start_ts) THEN TRUE ELSE before.airdropped

PolicyAFrame ==
    /\ outcome'.err = "Ok"
    /\ Len(distributor'.vesting.schedule) = Len(distributor.vesting.schedule)
    /\ \A index \in 1..Len(distributor.vesting.schedule) :
          FrozenOnly(distributor.vesting.schedule[index],
                     distributor'.vesting.schedule[index], now)
    /\ distributor'.merkle_root = distributor.merkle_root
    /\ distributor'.merkle_index = distributor.merkle_index
    /\ distributor'.paused = distributor.paused
    /\ distributor'.refund_deadline_ts = distributor.refund_deadline_ts
    /\ UNCHANGED <<now, vault, user_details, actual_wallet, refund_request,
                   refund_claim_request>>

\* C16: a stop_vesting at now succeeds and sets airdropped on exactly the
\* periods with start_ts > now; the other fields of every period, the flag
\* of every period with start_ts <= now, the number and the order of the
\* periods and the other fields of the distributor are unchanged.
PolicyA == [][outcome'.op = "stop_vesting" => PolicyAFrame]_vars

\* C16 witness: stop_vesting at 1250, when the first period of Staged has
\* ended and the second starts, has marked the third period only
FutureFrozen ==
    /\ outcome.op = "stop_vesting" /\ outcome.err = "Ok"
    /\ now = N(1250)
    /\ distributor.vesting.schedule =
           <<Staged[1], Staged[2], [Staged[3] EXCEPT !.airdropped = TRUE]>>

\* ------------------------------------------------------------------------
\* SpecTransfer: claim and withdraw_tokens with token programs that move
\* another amount than the one they report
\* ------------------------------------------------------------------------

\* the amounts of a claim that has passed the gates (lines 441-498)
ClaimDueOn(args, ud, gates) == IF ~gates.ok THEN gates ELSE ClaimAmounts(args, ud)

\* claim up to the transfer: Ok([amount, amount_to_add]) or the error
ClaimDueChecked(user, args, accounts_ok) ==
    IF ~accounts_ok.ok THEN accounts_ok
    ELSE ClaimDueOn(args, UdOf(user), ClaimGates(user, args, UdOf(user)))

ClaimDue(user, args) == ClaimDueChecked(user, args, ClaimAccounts(user, args))

\* claim from the transfer on, by a token program with `fault` (lines 504-523)
ClaimPayVia(user, due, fault, overflow_checks) ==
    IF ~due.ok THEN due
    ELSE ClaimWritten(due.v,
                      TokenTransferMakeVia(vault, due.v.amount, fault, overflow_checks),
                      ClaimLedger(UdOf(user), due.v))

\* what claim commits, with the amount it asked the token program with
\* `fault` to transfer, if it came to that
ClaimCommitVia(user, args, claimed, fault, asked) ==
    IF ~claimed.ok
    THEN /\ outcome' = [op |-> "claim", err |-> claimed.err, user |-> user,
                        args |-> args, fault |-> fault, asked |-> asked]
         /\ UNCHANGED <<now, distributor, vault, user_details, actual_wallet,
                        refund_request, refund_claim_request, leaves, paid>>
    ELSE /\ vault' = claimed.v.vault
         /\ user_details' =
                [user_details EXCEPT ![<<distributor.merkle_index, user>>] = claimed.v.ud]
         /\ refund_claim_request' = Close(refund_claim_request, user)
         /\ paid' = [paid EXCEPT ![args.original_wallet] = BAdd(@, claimed.v.amount)]
         /\ outcome' = [op |-> "claim", err |-> "Ok", user |-> user, args |-> args,
                        fault |-> fault, asked |-> asked, amount |-> claimed.v.amount,
                        emitted |-> <<Claimed(distributor.merkle_index, user,
                                              target_wallet(user), claimed.v.amount)>>]
         /\ UNCHANGED <<now, distributor, actual_wallet, refund_request, leaves>>

\* claim signed by `user`, whose amounts are `due`, by a token program with
\* `fault` (lines 433-537)
ClaimVia(user, args, due, fault, overflow_checks) ==
    ClaimCommitVia(user, args, ClaimPayVia(user, due, fault, overflow_checks), fault,
                   IF due.ok THEN Some(due.v.amount) ELSE None)

\* what withdraw_tokens commits
WithdrawTokensTo(amount, made, fault) ==
    /\ outcome' = [op |-> "withdraw_tokens", err |-> ErrOf(made), amount |-> amount,
                   fault |-> fault]
    /\ vault' = IF made.ok THEN made.v ELSE vault
    /\ UNCHANGED <<now, distributor, user_details, actual_wallet, refund_request,
                   refund_claim_request, leaves, paid>>

\* withdraw_tokens by a token program with `fault` (lines 335-359)
WithdrawTokensVia(amount, fault, overflow_checks) ==
    WithdrawTokensTo(amount, TokenTransferMakeVia(vault, amount, fault, overflow_checks),
                     fault)

\* the amounts that are withdrawn
Withdrawals == {<< >>, N(3000)}

TransferInit == InitOver({Thirds}, {StopLeaves}, StartNow)

DoClaimVia ==
    \E user \in Signers :
        \E due \in {ClaimDue(user, OwnClaimArgs(user))} :
            \E fault \in Faults, overflow_checks \in BOOLEAN :
                ClaimVia(user, OwnClaimArgs(user), due, fault, overflow_checks)

DoWithdrawTokensVia ==
    \E amount \in Withdrawals, fault \in Faults, overflow_checks \in BOOLEAN :
        WithdrawTokensVia(amount, fault, overflow_checks)

TransferNext ==
    \/ StopTick /\ Settled
    \/ DoInitUserDetails /\ Settled
    \/ DoRefundClaimRequest /\ Settled
    \/ DoClaimVia /\ Settled
    \/ DoWithdrawTokensVia /\ Settled

SpecTransfer == TransferInit /\ [][TransferNext]_vars

\* the claim of `user` with `args` reaches the transfer
ReachesTransfer(user, args) ==
    /\ ClaimAccounts(user, args).ok
    /\ ClaimGates(user, args, UdOf(user)).ok
    /\ ClaimAmounts(args, UdOf(user)).ok

\* the balance left is not the balance before less the amount
Inexact(amount, left) == BAdd(left, amount) # vault

ExactnessAsStated(amount, left, err) ==
    /\ err = "Ok" => ~Inexact(amount, left) /\ vault' = left
    /\ Inexact(amount, left) => err = "InvalidAmountTransferred" /\ ChangesNothing

Exactness(amount, left, err) ==
    /\ err = "Ok" => ~Inexact(amount, left) /\ vault' = left
    /\ Inexact(amount, left) =>
           /\ err \in {"InvalidAmountTransferred", "Panic"}
           /\ BLe(left, vault) => err = "InvalidAmountTransferred"
           /\ ChangesNothing

\* a transfer of `amount` that the token program with `fault` has reported
\* as made ends with `err`
TransferIs(amount, fault, err, as_stated) ==
    BLe(amount, vault) =>
        IF as_stated THEN ExactnessAsStated(amount, FaultyBalance(vault, amount, fault), err)
        ELSE Exactness(amount, FaultyBalance(vault, amount, fault), err)

\* the transfer of this step, if it is a withdraw_tokens or a claim that
\* has asked for one
TransferStep(as_stated) ==
    /\ outcome'.op = "withdraw_tokens" =>
           \E amount \in {outcome'.amount}, fault \in {outcome'.fault},
              err \in {outcome'.err} :
               TransferIs(amount, fault, err, as_stated)
    /\ outcome'.op = "claim" /\ outcome'.asked.some =>
           \E amount \in {outcome'.asked.v}, fault \in {outcome'.fault},
              err \in {outcome'.err} :
               TransferIs(amount, fault, err, as_stated)

\* C17 (as stated): a transfer of `amount` out of the vault succeeds only if
\* the balance after the transfer primitive returns is balance_before -
\* amount; when the primitive reports success and the balance is any other
\* value, the operation (claim or withdraw_tokens) fails with
\* InvalidAmountTransferred and commits nothing.
TransferExactAsStated == [][TransferStep(TRUE)]_vars

\* C17: a transfer of `amount` out of the vault succeeds only if the balance
\* after the transfer primitive returns is balance_before - amount; when the
\* primitive reports success and the balance is any other value, the
\* operation (claim or withdraw_tokens) fails and commits nothing: with
\* InvalidAmountTransferred when the balance is not above balance_before,
\* and with InvalidAmountTransferred or a panic of the u64 subtraction
\* when it is above.
TransferExact == [][TransferStep(FALSE)]_vars

\* C17 witness: a claim of a second unlock, made by a token program that
\* debits one token less than the amount, has failed with
\* InvalidAmountTransferred
InexactClaimRefused ==
    /\ outcome.op = "claim" /\ outcome.err = "InvalidAmountTransferred"
    /\ outcome.fault = "less"
    /\ UdOf(outcome.user).claimed_amount = N(300)
    /\ BLt(UdOf(outcome.user).last_claimed_at_ts, now)

\* ------------------------------------------------------------------------
\* The amount of a claim, the ledger and the event (under SpecGate)
\* ------------------------------------------------------------------------

\* amount is the least whole number that is not below total x fraction,
\* for a fraction that is a Decimal
IsCeilOf(amount, total, fraction) ==
    /\ BLe(BMul(total, fraction.m), MulPow10(amount, fraction.s))
    /\ amount # << >> =>
           BLt(MulPow10(BSub(amount, <<1>>), fraction.s), BMul(total, fraction.m))

\* a claim of `user` with `args`, for which bps_available_to_claim gave
\* `avail`, has moved `amount` and emitted `emitted`
AmountFormula(user, args, avail, amount, emitted) ==
    /\ avail.ok
    /\ IsCeilOf(amount, args.amount, avail.v[1])
    /\ vault' = BSub(vault, amount)
    /\ emitted = <<Claimed(distributor'.merkle_index, user, target_wallet(user), amount)>>
    /\ distributor'.merkle_index = distributor.merkle_index

\* C18: every successful claim debits the vault by amount = ceil(args.amount
\* x claimable fraction), the first component of bps_available_to_claim(now,
\* ledger), never rounded down, and emits one Claimed event with the current
\* merkle_index, the signer, the target wallet and that amount.
ClaimAmountFormula ==
    [][\A user \in Signers :
          ClaimStepBy(user) /\ outcome'.err = "Ok" =>
              \E args \in {outcome'.args}, amount \in {outcome'.amount},
                 emitted \in {outcome'.emitted} :
                  AmountFormula(user, args,
                                bps_available_to_claim(distributor.vesting.schedule, now,
                                                       UdOf(user).last_claimed_at_ts),
                                amount, emitted)]_vars

\* C18 witness: in the generation of the second root a claim of two thirds
\* of 700 tokens has moved 467 tokens and emitted the event of that amount
RoundedUpClaim ==
    /\ outcome.op = "claim" /\ outcome.err = "Ok"
    /\ distributor.merkle_index = N(1)
    /\ outcome.args.amount = N(700)
    /\ outcome.amount = N(467)
    /\ outcome.emitted = <<Claimed(N(1), outcome.user, target_wallet(outcome.user), N(467))>>

\* ------------------------------------------------------------------------
\* SpecLedger: claims of an entitlement next to u64::MAX, with a second
\* period that stop_vesting may mark as airdropped
\* ------------------------------------------------------------------------

\* half of the tokens in two unlocks, then half in one
Halves ==
    <<Period(Pct(50), N(1000), N(250), N(2), FALSE),
      Period(Pct(50), N(1750), N(250), N(1), FALSE)>>

\* the largest even entitlement
EntMax == BSub(U64_MAX, <<1>>)

LedgerLeaves == <<Leaf("A", EntMax), Leaf("B", EntB)>>

\* a distribution after initialize whose vault holds u64::MAX tokens
LedgerInit ==
    /\ now = N(StartNow)
    /\ leaves = LedgerLeaves
    /\ distributor =
           InitializedDistributor(InitializeArgs(MerkleRoot(leaves), Halves, None))
    /\ vault = U64_MAX
    /\ user_details = NoAccounts
    /\ actual_wallet = OwnWallets
    /\ refund_request = NoAccounts
    /\ refund_claim_request = NoAccounts
    /\ Configured
    /\ paid = [w \in Wallets |-> << >>]
    /\ outcome = [op |-> "initialize", err |-> "Ok"]

LedgerNext ==
    \/ DoTick /\ Settled
    \/ DoInitUserDetails /\ Settled
    \/ DoRefundClaimRequest /\ Settled
    \/ DoClaim /\ Settled
    \/ DoStopVesting /\ Settled

SpecLedger == LedgerInit /\ [][LedgerNext]_vars

\* the ledger record after a successful claim that moved `amount`
LedgerWritten(args, before, after, avail, amount) ==
    /\ after.last_claimed_at_ts = now
    /\ BLe(BAdd(before.claimed_amount, amount), after.claimed_amount)
    /\ IsCeilOf(BSub(after.claimed_amount, BAdd(before.claimed_amount, amount)),
                args.amount, avail.v[2])

\* a claim on the record `before` whose amounts are `due` and whose transfer
\* is made, when the sum for the ledger is above u64::MAX
LedgerOverflows(before, due, made) ==
    /\ due.ok
    /\ made.ok
    /\ BLt(U64_MAX,
           BAdd(BAdd(before.claimed_amount, due.v.amount), due.v.amount_to_add))

LedgerStep(user, args, err, due) ==
    /\ err = "Ok" =>
           \E amount \in {outcome'.amount} :
               LedgerWritten(args, UdOf(user), UdOf(user)',
                             bps_available_to_claim(distributor.vesting.schedule, now,
                                                    UdOf(user).last_claimed_at_ts),
                             amount)
    /\ LedgerOverflows(UdOf(user), due, TokenTransferMake(vault, due.v.amount)) =>
           err = "IntegerOverflow" /\ ChangesNothing

\* C19: after every successful claim the ledger record has claimed_amount' =
\* claimed_amount + amount + ceil(args.amount x airdropped fraction) and
\* last_claimed_at_ts' = now; a claim whose additions overflow u64 fails
\* with IntegerOverflow and commits nothing.
LedgerUpdate ==
    [][\A user \in Signers :
          ClaimStepBy(user) =>
              \E args \in {outcome'.args}, err \in {outcome'.err} :
                  LedgerStep(user, args, err, ClaimDue(user, args))]_vars

\* C19 witness: a claim on a record that holds a quarter of the entitlement,
\* made when the first period has ended and the second is airdropped, has
\* failed with IntegerOverflow
LedgerOverflowSeen ==
    /\ outcome.op = "claim" /\ outcome.err = "IntegerOverflow"
    /\ distributor.vesting.schedule[2].airdropped
    /\ BLt(<< >>, UdOf(outcome.user).claimed_amount)
    /\ BLt(UdOf(outcome.user).claimed_amount, outcome.args.amount)

\* ------------------------------------------------------------------------
\* SpecWallet: recipients claim, move to another wallet and claim from it
\* ------------------------------------------------------------------------

\* the wallets that sign
Holders == {"A", "B"}

WalletInit == InitOver({Thirds}, {TreeLeaves}, StartNow)

\* the clock stops before the last period ends
WalletTick == Tick(GateTickStep, StopMaxNow)

DoInitUserDetailsBy == \E user \in Holders : InitUserDetails(user)

DoRefundClaimRequestBy ==
    \E user \in Holders : RefundClaimRequest(user, Entitlement(user))

\* a claim of a holder for the leaf of an original wallet
DoClaimFor ==
    \E user \in Holders, original_wallet \in Wallets :
        Claim(user, OwnClaimArgs(original_wallet))

DoChangeWallet ==
    \E user \in Holders, new_wallet \in Holders, original_wallet \in Wallets :
        ChangeWallet(user, new_wallet, original_wallet)

WalletNext ==
    \/ WalletTick /\ Settled
    \/ DoInitUserDetailsBy /\ Settled
    \/ DoRefundClaimRequestBy /\ Settled
    \/ DoClaimFor /\ Settled
    \/ DoChangeWallet /\ Settled

SpecWallet == WalletInit /\ [][WalletNext]_vars

\* a record that this step keeps has not lost claimed_amount; a record that
\* this step removes was moved by change_wallet to the record of the new
\* wallet, with both fields as they were
RecordKeptOrMoved(key) ==
    IF Has(user_details', key)
    THEN BLe(user_details[key].claimed_amount, user_details'[key].claimed_amount)
    ELSE /\ outcome'.op = "change_wallet" /\ outcome'.err = "Ok"
         /\ key = <<distributor.merkle_index, outcome'.user>>
         /\ Has(user_details', <<distributor.merkle_index, outcome'.new_wallet>>)
         /\ user_details'[<<distributor.merkle_index, outcome'.new_wallet>>] =
                user_details[key]

\* a record that this step creates is empty, or is the one change_wallet
\* has moved
RecordCreated(key) ==
    \/ /\ outcome'.op = "init_user_details"
       /\ user_details'[key].claimed_amount = << >>
       /\ user_details'[key].last_claimed_at_ts = << >>
    \/ /\ outcome'.op = "change_wallet"
       /\ key = <<distributor.merkle_index, outcome'.new_wallet>>
       /\ user_details'[key] = user_details[<<distributor.merkle_index, outcome'.user>>]

\* the record of the wallet that claims for the leaf of `original_wallet`,
\* when there is one, holds at least what was paid for that leaf
Remembered(original_wallet) ==
    Has(user_details,
        <<distributor.merkle_index, actual_wallet[original_wallet].actual>>)
        => BLe(paid[original_wallet],
               UdOf(actual_wallet[original_wallet].actual).claimed_amount)

\* C20: a ledger record is created with claimed_amount = 0 and
\* last_claimed_at_ts = 0, and under every sequence of operations its
\* claimed_amount never decreases and is never reset; it disappears only by
\* change_wallet, which copies both fields to the record of the new wallet.
\* So the record that a claim for a leaf is charged to has every transfer
\* made for that leaf in its claimed_amount.
LedgerRemembers == \A original_wallet \in Wallets : Remembered(original_wallet)

\* C20, each step taken alone: a record that stays is not lowered, a record
\* that goes was moved by change_wallet with both fields as they were, and a
\* record that comes is empty or is the one moved.
LedgerMonotone ==
    [][/\ \A key \in DOMAIN user_details : RecordKeptOrMoved(key)
       /\ \A key \in (DOMAIN user_details') \ (DOMAIN user_details) :
              RecordCreated(key)]_vars

\* C20: change_wallet has moved a record with tokens claimed to the record
\* of the new wallet, and the record of the signer is closed
RecordMoved ==
    /\ outcome.op = "change_wallet" /\ outcome.err = "Ok"
    /\ ~Has(user_details, <<distributor.merkle_index, outcome.user>>)
    /\ BLt(<< >>, UdOf(outcome.new_wallet).claimed_amount)
    /\ BLt(<< >>, UdOf(outcome.new_wallet).last_claimed_at_ts)
    /\ actual_wallet[outcome.original_wallet].actual = outcome.new_wallet

\* C20: the leaf of A is never paid more than its entitlement
LeafCapped == BLe(paid["A"], Entitlement("A"))

\* ------------------------------------------------------------------------
\* SpecRefund: a recipient asks for a refund, cancels, and claims before
\* and after the refund deadline
\* ------------------------------------------------------------------------

\* the refund deadline of the distribution
RefundDeadline == 1250

RefundInit ==
    /\ now = N(StartNow)
    /\ leaves = TreeLeaves
    /\ \E refund_deadline_ts \in {None, Some(N(RefundDeadline))} :
          distributor = InitializedDistributor(
                            InitializeArgs(MerkleRoot(leaves), Thirds,
                                           refund_deadline_ts))
    /\ vault = VaultFunds
    /\ user_details = NoAccounts
    /\ actual_wallet = OwnWallets
    /\ refund_request = NoAccounts
    /\ refund_claim_request = NoAccounts
    /\ Configured
    /\ paid = [w \in Wallets |-> << >>]
    /\ outcome = [op |-> "initialize", err |-> "Ok"]

DoInitRefundRequest == \E user \in Signers : InitRefundRequest(user)

DoCancelRefundRequest == \E user \in Signers : CancelRefundRequest(user)

RefundNext ==
    \/ StopTick /\ Settled
    \/ DoInitUserDetails /\ Settled
    \/ DoRefundClaimRequest /\ Settled
    \/ DoClaim /\ Settled
    \/ DoSetPaused /\ Settled
    \/ DoInitRefundRequest /\ Settled
    \/ DoCancelRefundRequest /\ Settled

SpecRefund == RefundInit /\ [][RefundNext]_vars

\* a refund deadline is configured and has passed, and the refund request
\* of the recipient exists and is active
RefundGateShut(args) ==
    /\ distributor.refund_deadline_ts # None
    /\ BLt(distributor.refund_deadline_ts.v, now)
    /\ Has(refund_request, args.original_wallet)
    /\ refund_request[args.original_wallet].active

\* the checks that claim makes before the refund gate pass (lines 441-448)
GatesBeforeRefundPass(user, args) ==
    /\ actual_wallet[args.original_wallet].actual = user
    /\ ~BLt(BAdd(refund_claim_request[user].time_stamp, N(REFUND_TIME_LIMIT)), now)
    /\ ~distributor.paused
    /\ validate(distributor.vesting.schedule).ok
    /\ BLt(UdOf(user).claimed_amount, args.amount)

RefundGateAsStated(args, err) ==
    IF RefundGateShut(args)
    THEN err = "RefundRequested" /\ ChangesNothing
    ELSE err # "RefundRequested"

\* C21 (as stated): if a refund deadline is configured, now is past it and
\* an active refund request exists for the recipient, the claim fails with
\* RefundRequested and transfers nothing; otherwise the refund gate does
\* not block the claim.
RefundGateBlocksAsStated ==
    [][\A user \in Signers :
          ClaimStepBy(user) =>
              \E args \in {outcome'.args}, err \in {outcome'.err} :
                  RefundGateAsStated(args, err)]_vars

RefundGate(user, args, err) ==
    IF RefundGateShut(args)
    THEN /\ err # "Ok"
         /\ ChangesNothing
         /\ GatesBeforeRefundPass(user, args) => err = "RefundRequested"
    ELSE err # "RefundRequested"

\* C21: if a refund deadline is configured, now is past it and an active
\* refund request exists for the recipient, the claim fails and transfers
\* nothing, with RefundRequested when the checks made before the refund gate
\* pass (request for the claim in time, not paused, valid schedule, ledger
\* below the entitlement); an inactive or absent refund request, or a
\* deadline not yet passed, never gives RefundRequested.
RefundGateBlocks ==
    [][\A user \in Signers :
          ClaimStepBy(user) =>
              \E args \in {outcome'.args}, err \in {outcome'.err} :
                  RefundGate(user, args, err)]_vars

\* C21 witness: past the deadline, a claim of a recipient with an active
\* refund request was refused with RefundRequested
RefundRequestedSeen ==
    /\ outcome.op = "claim" /\ outcome.err = "RefundRequested"
    /\ BLt(N(RefundDeadline), now)
    /\ refund_request[outcome.args.original_wallet].active
    /\ ~distributor.paused

\* this step is a claim of `user` that succeeds while the refund request of
\* the recipient is active
ClaimsWithRefundIntent(user, args) ==
    /\ outcome'.err = "Ok"
    /\ Has(refund_request, args.original_wallet)
    /\ refund_request[args.original_wallet].active

\* C22: whenever a claim succeeds for a recipient that has an active refund
\* request, the stored refund request of that recipient has active = false
\* in the state after the claim.
ClaimWithdrawsRefundIntent ==
    [][\A user \in Signers :
          ClaimStepBy(user) =>
              \E args \in {outcome'.args} :
                  ClaimsWithRefundIntent(user, args) =>
                      ~refund_request'[args.original_wallet].active]_vars

\* C22: a claim has paid a recipient before the deadline and the refund
\* request of the recipient is still active
RefundIntentKept ==
    /\ outcome.op = "claim" /\ outcome.err = "Ok"
    /\ distributor.refund_deadline_ts # None
    /\ Has(refund_request, outcome.args.original_wallet)
    /\ refund_request[outcome.args.original_wallet].active

\* now is past the configured refund deadline
PastRefundDeadline ==
    /\ distributor.refund_deadline_ts # None
    /\ BLt(distributor.refund_deadline_ts.v, now)

\* the refund request of `wallet` exists and is active, in `requests`
ActiveIn(requests, wallet) == Has(requests, wallet) /\ requests[wallet].active

\* this step is an init_refund_request of `user` that passes the account
\* constraints
InitRefundStepBy(user) ==
    /\ Has(user_details, <<distributor.merkle_index, user>>)
    /\ ~Has(refund_request, user)
    /\ outcome'.op = "init_refund_request"
    /\ outcome'.user = user

\* this step is a cancel_refund_request of `user` on its refund request
CancelRefundStepBy(user) ==
    /\ Has(refund_request, user)
    /\ outcome'.op = "cancel_refund_request"
    /\ outcome'.user = user

\* a request becomes active only through init_refund_request of the
\* recipient, with nothing claimed and the deadline not passed; it stops
\* being active only through cancel_refund_request of the recipient, the
\* deadline not passed
RefundFlagMoves(wallet) ==
    /\ (ActiveIn(refund_request', wallet) /\ ~ActiveIn(refund_request, wallet)) =>
           /\ InitRefundStepBy(wallet) /\ outcome'.err = "Ok"
           /\ UdOf(wallet).claimed_amount = << >>
           /\ ~PastRefundDeadline
    /\ (ActiveIn(refund_request, wallet) /\ ~ActiveIn(refund_request', wallet)) =>
           /\ CancelRefundStepBy(wallet) /\ outcome'.err = "Ok"
           /\ ~PastRefundDeadline
           /\ refund_request' = [refund_request EXCEPT ![wallet].active = FALSE]

RefundStepsAsStated(user) ==
    /\ InitRefundStepBy(user) =>
           /\ UdOf(user).claimed_amount # << >> =>
                  outcome'.err = "AlreadyClaimed" /\ ChangesNothing
           /\ PastRefundDeadline =>
                  outcome'.err = "RefundDeadlineIsOver" /\ ChangesNothing
           /\ (UdOf(user).claimed_amount = << >> /\ ~PastRefundDeadline) =>
                  outcome'.err = "Ok" /\ ActiveIn(refund_request', user)
    /\ CancelRefundStepBy(user) =>
           IF PastRefundDeadline
           THEN outcome'.err = "RefundDeadlineIsOver" /\ ChangesNothing
           ELSE outcome'.err = "Ok" /\ ~ActiveIn(refund_request', user)

\* C23 (as stated): a refund request becomes active only through
\* init_refund_request by a recipient who has claimed nothing (otherwise
\* AlreadyClaimed) while now <= the deadline; it is cancelled by the
\* recipient only while now <= the deadline; init_refund_request and
\* cancel_refund_request fail with RefundDeadlineIsOver once now > deadline,
\* leaving the request unchanged.
RefundLifecycleAsStated ==
    [][/\ \A wallet \in Wallets : RefundFlagMoves(wallet)
       /\ \A user \in Signers : RefundStepsAsStated(user)]_vars

RefundSteps(user) ==
    /\ InitRefundStepBy(user) =>
           IF UdOf(user).claimed_amount # << >>
           THEN outcome'.err = "AlreadyClaimed" /\ ChangesNothing
           ELSE IF PastRefundDeadline
           THEN outcome'.err = "RefundDeadlineIsOver" /\ ChangesNothing
           ELSE outcome'.err = "Ok" /\ ActiveIn(refund_request', user)
    /\ CancelRefundStepBy(user) =>
           IF PastRefundDeadline
           THEN outcome'.err = "RefundDeadlineIsOver" /\ ChangesNothing
           ELSE outcome'.err = "Ok" /\ ~ActiveIn(refund_request', user)

\* C23: a refund request becomes active only through init_refund_request by
\* a recipient whose ledger record holds claimed_amount = 0, while now <= the
\* deadline; it is cancelled by the recipient only while now <= the
\* deadline; init_refund_request of a recipient that has claimed fails with
\* AlreadyClaimed, before and after the deadline, and of one that has not
\* with RefundDeadlineIsOver once now > deadline; cancel_refund_request
\* fails with RefundDeadlineIsOver once now > deadline; the failures leave
\* the request unchanged.
RefundLifecycle ==
    [][/\ \A wallet \in Wallets : RefundFlagMoves(wallet)
       /\ \A user \in Signers : RefundSteps(user)]_vars

\* C23 witness: past the deadline, the recipient of an active refund
\* request tried to cancel it and was refused with RefundDeadlineIsOver
LateCancelRefused ==
    /\ outcome.op = "cancel_refund_request"
    /\ outcome.err = "RefundDeadlineIsOver"
    /\ BLt(N(RefundDeadline), now)
    /\ ActiveIn(refund_request, outcome.user)

\* ------------------------------------------------------------------------
\* SpecAdmin: the owner, admins and strangers sign the instructions of the
\* operator; the owner adds and removes admins
\* ------------------------------------------------------------------------

\* every signer passes
AnyCaller(caller) == TRUE

\* the constraint of admin_or_owner in Initialize, Initialize2, UpdateRoot,
\* UpdateSchedule, SetPaused and StopVesting (lines 918-923, 1011-1016)
AdminOrOwner(caller) ==
    \/ caller = config.owner
    \/ \E slot \in 1..ADMIN_SLOTS : config.admins[slot] = Some(caller)

\* an instruction of `caller` that an account constraint refuses
Refused(op, err, caller) ==
    /\ Failed(op, err)
    /\ signer' = caller
    /\ UNCHANGED <<config, foreseen, admin_stats>>

\* an instruction with the constraint of admin_or_owner, signed by `caller`
SignedBy(caller, op, handler) ==
    IF AdminOrOwner(caller)
    THEN handler /\ signer' = caller /\ UNCHANGED <<config, foreseen, admin_stats>>
    ELSE Refused(op, "NotAdminOrOwner", caller)

\* the first slot of `admins` that holds `wanted`, 0 when none does
SlotOf(admins, wanted) ==
    IF \E slot \in 1..ADMIN_SLOTS : admins[slot] = wanted
    THEN CHOOSE slot \in 1..ADMIN_SLOTS :
             /\ admins[slot] = wanted
             /\ \A before \in 1..(slot - 1) : admins[before] # wanted
    ELSE 0

\* add_admin that takes the first empty slot without looking for the admin
AddAdminUnchecked(admins, admin) ==
    IF SlotOf(admins, None) # 0
    THEN Ok([admins EXCEPT ![SlotOf(admins, None)] = Some(admin)])
    ELSE Err("MaxAdmins")

\* the loops of add_admin (lines 298-315): Ok(the new admins) or the error
AddAdminTo(admins, admin) ==
    IF SlotOf(admins, Some(admin)) # 0 THEN Ok(admins)
    ELSE IF SlotOf(admins, None) # 0
    THEN Ok([admins EXCEPT ![SlotOf(admins, None)] = Some(admin)])
    ELSE Err("MaxAdmins")

\* the loop of remove_admin (lines 322-332)
RemoveAdminFrom(admins, admin) ==
    IF SlotOf(admins, Some(admin)) = 0 THEN Err("AdminNotFound")
    ELSE Ok([admins EXCEPT ![SlotOf(admins, Some(admin))] = None])

\* what add_admin and remove_admin commit, after the constraint of owner
\* (lines 1107-1111, 1123-1127)
ConfigCommit(op, caller, admin, written) ==
    /\ outcome' = [op |-> op,
                   err |-> IF caller # config.owner THEN "NotOwner" ELSE ErrOf(written),
                   admin |-> admin]
    /\ config' = IF caller = config.owner /\ written.ok
                 THEN [config EXCEPT !.admins = written.v] ELSE config
    /\ signer' = caller
    /\ UNCHANGED <<now, distributor, vault, user_details, actual_wallet, refund_request,
                   refund_claim_request, leaves, paid, foreseen, admin_stats>>

\* add_admin signed by `caller` (lines 294-316)
AddAdmin(caller, admin) ==
    ConfigCommit("add_admin", caller, admin, AddAdminTo(config.admins, admin))

\* remove_admin signed by `caller` (lines 318-333)
RemoveAdmin(caller, admin) ==
    ConfigCommit("remove_admin", caller, admin, RemoveAdminFrom(config.admins, admin))

\* the wallets that sign the instructions of the operator
Callers == {Owner, "X", "Y"}

\* the wallets that add_admin and remove_admin name
AdminPool == {"X", "Y", "K1"}

\* ten admins
Crowd == [slot \in 1..ADMIN_SLOTS |->
             Some(<<"K1", "K2", "K3", "K4", "K5", "K6", "K7", "K8", "K9", "K10">>[slot])]

\* the Config account after initialize_config, and after ten add_admin
AdminInit ==
    /\ now = N(ScheduleStart)
    /\ leaves = TreeLeaves
    /\ distributor = NoDistributor
    /\ vault = VaultFunds
    /\ user_details = NoAccounts
    /\ actual_wallet = OwnWallets
    /\ refund_request = NoAccounts
    /\ refund_claim_request = NoAccounts
    /\ paid = [w \in Wallets |-> << >>]
    /\ outcome = [op |-> "initialize_config", err |-> "Ok"]
    /\ config \in {InitializedConfig(Owner),
                   [InitializedConfig(Owner) EXCEPT !.admins = Crowd]}
    /\ signer = Owner
    /\ foreseen = << >>
    /\ admin_stats = [some |-> FALSE]

DoAddAdmin == \E caller \in Callers, admin \in AdminPool : AddAdmin(caller, admin)

DoRemoveAdmin == \E caller \in Callers, admin \in AdminPool : RemoveAdmin(caller, admin)

\* initialize of the distributor account, signed by `caller`
DoInitializeBy ==
    /\ distributor = NoDistributor
    /\ \E caller \in Callers :
          SignedBy(caller, "initialize",
                   Initialize(InitializeArgs(MerkleRoot(TreeLeaves), Thirds, None)))

DoSetPausedBy ==
    /\ distributor # NoDistributor
    /\ \E caller \in Callers, paused \in BOOLEAN :
          SignedBy(caller, "set_paused", SetPaused(paused))

DoUpdateRootBy ==
    /\ distributor # NoDistributor
    /\ BLt(distributor.merkle_index, N(MaxIndex))
    /\ \E caller \in Callers :
          SignedBy(caller, "update_root",
                   UpdateRoot(UpdateRootArgs(MerkleRoot(NextLeaves), FALSE), NextLeaves))

DoUpdateScheduleBy ==
    /\ distributor # NoDistributor
    /\ \E caller \in Callers :
          SignedBy(caller, "update_schedule",
                   UpdateSchedule(UpdateScheduleArgs(
                       <<Update(<< >>, Period(Pct(100), N(1500), N(250), N(2), FALSE))>>)))

DoUpdateSchedule2By ==
    /\ distributor # NoDistributor
    /\ \E caller \in Callers :
          SignedBy(caller, "update_schedule2",
                   UpdateSchedule2(UpdateScheduleArgs(<<Remove(<< >>)>>)))

DoStopVestingBy ==
    /\ distributor # NoDistributor
    /\ \E caller \in Callers : SignedBy(caller, "stop_vesting", StopVesting)

DoStopVesting2By ==
    /\ distributor # NoDistributor
    /\ \E caller \in Callers : SignedBy(caller, "stop_vesting2", StopVesting2)

AdminNext ==
    \/ DoAddAdmin
    \/ DoRemoveAdmin
    \/ DoInitializeBy
    \/ DoSetPausedBy
    \/ DoUpdateRootBy
    \/ DoUpdateScheduleBy
    \/ DoUpdateSchedule2By
    \/ DoStopVestingBy
    \/ DoStopVesting2By

SpecAdmin == AdminInit /\ [][AdminNext]_vars

\* the instructions with the constraint of admin_or_owner
AdminGated ==
    {"update_schedule", "update_schedule2", "update_root", "set_paused", "stop_vesting",
     "stop_vesting2", "initialize"}

\* `caller` is the owner of `cfg` or sits in one of its slots
AuthorizedIn(cfg, caller) ==
    caller = cfg.owner \/ \E slot \in DOMAIN cfg.admins : cfg.admins[slot] = Some(caller)

\* this step is an instruction of the operator signed by `caller`
OperatorStep(caller) == signer' = caller /\ outcome'.op \in AdminGated

\* this step is add_admin or remove_admin signed by `caller`
RegistryStep(caller) == signer' = caller /\ outcome'.op \in {"add_admin", "remove_admin"}

Authorization(caller) ==
    /\ OperatorStep(caller) =>
           IF AuthorizedIn(config, caller)
           THEN outcome'.err # "NotAdminOrOwner"
           ELSE outcome'.err = "NotAdminOrOwner" /\ ChangesNothing
    /\ RegistryStep(caller) =>
           IF caller = config.owner
           THEN outcome'.err # "NotOwner"
           ELSE outcome'.err = "NotOwner" /\ config' = config /\ ChangesNothing
    /\ (RegistryStep(caller) /\ outcome'.op = "remove_admin" /\ outcome'.err = "Ok"
            /\ outcome'.admin # config.owner) =>
           ~AuthorizedIn(config', outcome'.admin)

\* C24: update_schedule, update_schedule2, update_root, set_paused,
\* stop_vesting, stop_vesting2 and initialize succeed only when the caller is
\* config.owner or present in config.admins (else NotAdminOrOwner);
\* add_admin and remove_admin succeed only for config.owner (else NotOwner);
\* after remove_admin(a) succeeds, a (if not the owner) is not authorized,
\* so it is rejected until it is added again; config.owner never changes.
Authorized ==
    [][/\ \A caller \in Callers : Authorization(caller)
       /\ config'.owner = config.owner]_vars

\* C24 witness: the owner has removed the admin X from a registry that
\* still holds the admin Y, and X is no longer authorized
AdminRemoved ==
    /\ outcome.op = "remove_admin" /\ outcome.err = "Ok" /\ outcome.admin = "X"
    /\ signer = config.owner
    /\ ~AuthorizedIn(config, "X")
    /\ AuthorizedIn(config, "Y")
    /\ distributor # NoDistributor

\* the set of identities that the slots of `cfg` hold
AdminSet(cfg) ==
    {cfg.admins[slot].v : slot \in {at \in DOMAIN cfg.admins : cfg.admins[at].some}}

\* no identity sits in two slots of `cfg`
NoIdentityTwice(cfg) ==
    \A one \in DOMAIN cfg.admins, other \in DOMAIN cfg.admins :
        (cfg.admins[one].some /\ one # other) => cfg.admins[one] # cfg.admins[other]

\* add_admin and remove_admin of the owner, as insert and delete of a set of
\* at most ADMIN_SLOTS identities
RegistryAsSet(op, admin, err) ==
    /\ op = "add_admin" =>
           IF admin \in AdminSet(config)
           THEN err = "Ok" /\ config' = config
           ELSE IF Cardinality(AdminSet(config)) = ADMIN_SLOTS
           THEN err = "MaxAdmins" /\ config' = config
           ELSE err = "Ok" /\ AdminSet(config') = AdminSet(config) \cup {admin}
    /\ op = "remove_admin" =>
           IF admin \in AdminSet(config)
           THEN err = "Ok" /\ AdminSet(config') = AdminSet(config) \ {admin}
           ELSE err = "AdminNotFound" /\ config' = config

\* C25: after any sequence of add_admin and remove_admin the 10 slots hold
\* no identity twice and stand for the set obtained by idempotent insert and
\* delete by value; add_admin of a present identity succeeds without change
\* (also when the slots are full), of an absent one fails with MaxAdmins
\* only when 10 identities are present; remove_admin fails with
\* AdminNotFound exactly when the identity is absent; failures leave the
\* registry unchanged.
RegistryRefinesSet ==
    [][/\ RegistryStep(config.owner) =>
              \E op \in {outcome'.op}, admin \in {outcome'.admin}, err \in {outcome'.err} :
                  RegistryAsSet(op, admin, err)
       /\ NoIdentityTwice(config) => NoIdentityTwice(config')
       /\ Cardinality(AdminSet(config')) <= ADMIN_SLOTS]_vars

\* C25 witness: with ten identities in the slots, add_admin of an absent
\* identity was refused with MaxAdmins
MaxAdminsSeen ==
    /\ outcome.op = "add_admin" /\ outcome.err = "MaxAdmins"
    /\ signer = config.owner
    /\ Cardinality(AdminSet(config)) = ADMIN_SLOTS
    /\ outcome.admin \notin AdminSet(config)
    /\ NoIdentityTwice(config)

\* ------------------------------------------------------------------------
\* SpecRoot: the generations of a distribution, from initialize to the last
\* merkle_index of a u64
\* ------------------------------------------------------------------------

\* a distributor account that is not initialized, and a distribution that
\* has seen all root replacements but two
RootInit ==
    /\ now = N(StartNow)
    /\ leaves = TreeLeaves
    /\ distributor \in
           {NoDistributor,
            [InitializedDistributor(InitializeArgs(MerkleRoot(TreeLeaves), Thirds, None))
                EXCEPT !.merkle_index = BSub(U64_MAX, <<1>>)]}
    /\ vault = VaultFunds
    /\ user_details = NoAccounts
    /\ actual_wallet = OwnWallets
    /\ refund_request = NoAccounts
    /\ refund_claim_request = NoAccounts
    /\ Configured
    /\ paid = [w \in Wallets |-> << >>]
    /\ outcome = [op |-> "initialize_config", err |-> "Ok"]

\* the distributor account is initialized
Created == distributor # NoDistributor

DoInitializeEither ==
    /\ ~Created
    /\ \/ Initialize(InitializeArgs(MerkleRoot(TreeLeaves), Thirds, None))
       \/ Initialize2(Initialize2Args(MerkleRoot(TreeLeaves), N(MaxPeriods), None))

\* update_root in the first generations and in the last ones
DoUpdateRootAt ==
    /\ BLt(distributor.merkle_index, N(MaxIndex))
          \/ BLe(BSub(U64_MAX, <<1>>), distributor.merkle_index)
    /\ \E unpause \in BOOLEAN :
          UpdateRoot(UpdateRootArgs(MerkleRoot(NextLeaves), unpause), NextLeaves)

RootNext ==
    \/ DoInitializeEither /\ Settled
    \/ Created /\ WalletTick /\ Settled
    \/ Created /\ DoInitUserDetails /\ Settled
    \/ Created /\ DoRefundClaimRequest /\ Settled
    \/ Created /\ DoClaim /\ Settled
    \/ Created /\ DoSetPaused /\ Settled
    \/ Created /\ DoStopVesting /\ Settled
    \/ Created /\ DoCommitUnchecked /\ Settled
    \/ Created /\ DoUpdateRootAt /\ Settled

SpecRoot == RootInit /\ [][RootNext]_vars

\* a successful update_root moves the generation by one, installs the root
\* it was given and emits MerkleRootUpdated with both
RootReplaced(args, next_index) ==
    /\ distributor'.merkle_index = next_index
    /\ distributor'.merkle_root = args.merkle_root
    /\ outcome'.emitted = <<[merkle_index |-> next_index, merkle_root |-> args.merkle_root]>>

GenerationStep ==
    IF ~Created
    THEN Created' => distributor'.merkle_index = << >>
    ELSE IF outcome'.op = "update_root"
    THEN IF distributor.merkle_index = U64_MAX
         THEN outcome'.err = "IntegerOverflow" /\ ChangesNothing
         ELSE /\ outcome'.err = "Ok"
              /\ RootReplaced(outcome'.args, BAdd(distributor.merkle_index, <<1>>))
    ELSE /\ distributor'.merkle_index = distributor.merkle_index
         /\ distributor'.merkle_root = distributor.merkle_root

\* C26: merkle_index starts at 0; every successful update_root increases it
\* by exactly 1 and installs the given root, emitting MerkleRootUpdated with
\* the new index and root; no other operation changes merkle_index or
\* merkle_root; update_root at merkle_index = u64::MAX fails with
\* IntegerOverflow.
GenerationCounter == [][GenerationStep]_vars

\* C26 witness: update_root was refused with IntegerOverflow at the last
\* merkle_index, after an update_root that reached it
LastGenerationSeen ==
    /\ outcome.op = "update_root" /\ outcome.err = "IntegerOverflow"
    /\ distributor.merkle_index = U64_MAX
    /\ distributor.merkle_root = MerkleRoot(NextLeaves)

\* a claim of `user` is computed from the record of the current generation
\* alone, and writes to that record
ChargedToGeneration(user, args, due) ==
    ClaimAccounts(user, args).ok =>
        /\ outcome'.err = ErrOf(due)
        /\ due.ok =>
               /\ outcome'.amount = due.v.amount
               /\ user_details'[<<distributor.merkle_index, user>>] = due.v.ud

\* the records of the other generations stay as they are
OtherGenerationsKept ==
    \A key \in DOMAIN user_details :
        key[1] # distributor'.merkle_index =>
            Has(user_details', key) /\ user_details'[key] = user_details[key]

\* a record that appears belongs to the current generation and is empty
RecordStartsEmpty ==
    \A key \in (DOMAIN user_details') \ (DOMAIN user_details) :
        key[1] = distributor.merkle_index /\ user_details'[key] = NewUserDetails

\* C27: after update_root every claim is accounted against the ledger
\* record keyed by the new merkle_index, which starts at claimed_amount = 0
\* and last_claimed_at_ts = 0 whatever the recipient claimed before; the
\* records of earlier generations are never read or modified by a later
\* claim.
GenerationIsolated ==
    [][/\ \A user \in Signers :
              ClaimStepBy(user) =>
                  \E args \in {outcome'.args} :
                      \E due \in {ClaimOn(user, args, UdOf(user))} :
                          ChargedToGeneration(user, args, due)
       /\ OtherGenerationsKept
       /\ RecordStartsEmpty]_vars

\* C27 witness: a recipient that claimed in the first generation has claimed
\* in the second one, and its record there holds what that claim paid
SecondGenerationClaim ==
    /\ outcome.op = "claim" /\ outcome.err = "Ok"
    /\ distributor.merkle_index = <<1>>
    /\ Has(user_details, <<(<< >>), outcome.user>>)
    /\ BLt(<< >>, user_details[<<(<< >>), outcome.user>>].claimed_amount)
    /\ UdOf(outcome.user).claimed_amount = outcome.amount

\* the claim step of `user` pays, or fails, as `due` does
PaysAs(due) ==
    /\ outcome'.err = ErrOf(due)
    /\ due.ok => outcome'.amount = due.v.amount

\* a claim for a leaf is paid as a record that holds what was paid for that
\* leaf, and the time the charged record was last claimed at, is paid
PaidFromOwnHistory(user, args) ==
    ClaimAccounts(user, args).ok =>
        PaysAs(ClaimOn(user, args,
                       UserDetails(UdOf(user).last_claimed_at_ts,
                                   paid[args.original_wallet])))

\* C28: change_wallet succeeds only for the current actual wallet of the
\* original recipient; afterwards the record of the new wallet has the
\* claimed_amount and last_claimed_at_ts of the closed record, and every
\* later claim by the new wallet pays the amount the old wallet would have
\* been paid at that time had there been no redirection: what the leaf
\* unlocks less what was paid for the leaf.
RedirectionKeepsHistory ==
    [][\A user \in Holders :
           ClaimStepBy(user) =>
               \E args \in {outcome'.args} :
                   user # args.original_wallet => PaidFromOwnHistory(user, args)]_vars

\* the ledger, and what the claim of each holder for each leaf returns
Foreseen ==
    [user_details |-> user_details,
     claim |-> [other \in Holders |->
                   [wallet \in Wallets |-> ClaimCall(other, OwnClaimArgs(wallet))]]]

\* a claim of a holder, with what the claims of the holders returned before it
DoClaimForeseen ==
    /\ DoClaimFor
    /\ foreseen' = Foreseen
    /\ UNCHANGED <<config, signer, admin_stats>>

\* a step that is no claim: nothing is foreseen
Unforeseen == foreseen' = << >> /\ UNCHANGED <<config, signer, admin_stats>>

PairNext ==
    \/ WalletTick /\ Unforeseen
    \/ DoInitUserDetailsBy /\ Unforeseen
    \/ DoRefundClaimRequestBy /\ Unforeseen
    \/ DoClaimForeseen

SpecPair == WalletInit /\ [][PairNext]_vars

\* what the last claim has taken from the vault
Taken == IF outcome.err = "Ok" THEN outcome.amount ELSE << >>

\* the claim `after` the last claim is the claim `before` it, paid from what
\* the last claim has left in the vault
SameClaim(before, after) ==
    /\ ErrOf(after) = ErrOf(before)
    /\ before.ok =>
           /\ after.v.amount = before.v.amount
           /\ after.v.ud = before.v.ud
           /\ BAdd(after.v.vault, Taken) = before.v.vault

\* the vault held what the last claim and the claim `before` it ask for
VaultPaysBoth(before) ==
    before.ok => BLe(BAdd(before.v.amount, Taken), BAdd(vault, Taken))

\* the claim of `other` for the leaf of `wallet` is what it was before the
\* last claim
Unmoved(other, wallet) ==
    \E before \in {foreseen.claim[other][wallet]},
       after \in {ClaimCall(other, OwnClaimArgs(wallet))} :
        VaultPaysBoth(before) => SameClaim(before, after)

\* the ledger record of `other` is what it was before the last claim
RecordUnmoved(other) ==
    Has(foreseen.user_details, <<distributor.merkle_index, other>>) =>
        /\ Has(user_details, <<distributor.merkle_index, other>>)
        /\ UdOf(other) = foreseen.user_details[<<distributor.merkle_index, other>>]

\* C29: claims of different recipients commute. At the same now and with a
\* vault that pays both, the claim of one recipient leaves the ledger record
\* of the other and the claim of the other as they were (its error or its
\* amount, the ledger record it writes), and the vault is left with the
\* balance less the two amounts, so that claim(A) then claim(B) and claim(B)
\* then claim(A) end in the same outcomes, ledger records and vault balance.
ClaimsCommute ==
    outcome.op = "claim" =>
        \A other \in Holders \ {outcome.user} :
            /\ RecordUnmoved(other)
            /\ \A wallet \in Wallets : Unmoved(other, wallet)

\* C29 witness: B has claimed right after A at the same time, both were
\* paid as foreseen, and the vault has lost the two amounts
BothClaimed ==
    /\ outcome.op = "claim" /\ outcome.err = "Ok" /\ outcome.user = "B"
    /\ foreseen.claim["B"]["B"].ok
    /\ Has(user_details, <<distributor.merkle_index, "A">>)
    /\ UdOf("A").last_claimed_at_ts = now
    /\ UdOf("B").last_claimed_at_ts = now
    /\ BLt(<< >>, UdOf("A").claimed_amount)
    /\ BLt(<< >>, UdOf("B").claimed_amount)
    /\ BAdd(vault, BAdd(paid["A"], paid["B"])) = VaultFunds

\* ------------------------------------------------------------------------
\* SpecAirdrop: claims under schedules with airdropped periods
\* ------------------------------------------------------------------------

\* the last period is airdropped
AirdropLast ==
    <<Period(Pct(70), N(1000), N(250), N(2), FALSE),
      Period(Pct(30), N(1600), N(150), N(1), TRUE)>>

\* an airdropped period between two that are not
AirdropBetween ==
    <<Period(Pct(30), N(1000), N(250), N(1), FALSE),
      Period(Pct(30), N(1300), N(200), N(1), TRUE),
      Period(Pct(40), N(1600), N(150), N(2), FALSE)>>

AirdropInit == InitOver({AirdropLast, AirdropBetween}, {TreeLeaves}, StartNow)

AirdropNext ==
    \/ DoTick /\ Settled
    \/ DoInitUserDetails /\ Settled
    \/ DoRefundClaimRequest /\ Settled
    \/ DoClaim /\ Settled
    \/ DoSetPaused /\ Settled

SpecAirdrop == AirdropInit /\ [][AirdropNext]_vars

\* every period that has not ended before now is marked airdropped
AllLeftAirdropped ==
    \A i \in DOMAIN distributor.vesting.schedule :
        ~BLt(end_ts(distributor.vesting.schedule[i]).v, now) =>
            distributor.vesting.schedule[i].airdropped

\* the claim of `user` passes the gates and the amounts it computes are
\* nothing to transfer and `amount_to_add` for the airdropped periods
ComputesNothing(user, args, avail, amount_to_add) ==
    /\ ClaimAccounts(user, args).ok
    /\ ClaimGates(user, args, UdOf(user)).ok
    /\ avail.ok
    /\ ceil_amount(args.amount, avail.v[1]) = Ok(<< >>)
    /\ ceil_amount(args.amount, avail.v[2]) = Ok(amount_to_add)

\* the fractions the claim of `user` is computed from
AvailableTo(user) ==
    bps_available_to_claim(distributor.vesting.schedule, now,
                           UdOf(user).last_claimed_at_ts)

\* the claim step of `user` computes nothing to transfer
ZeroAmountStep(user, args) ==
    \E avail \in {AvailableTo(user)} :
        /\ avail.ok
        /\ ComputesNothing(user, args, avail, ceil_amount(args.amount, avail.v[2]).v)

\* C30: a claim that passes all earlier gates but computes amount == 0 fails
\* with ScheduleStopped if every period whose end >= now is marked
\* airdropped, and with NothingToClaim otherwise; in both cases nothing is
\* transferred and the ledger is unchanged, even when the fraction of the
\* airdropped periods is positive.
ZeroAmountOutcome ==
    [][\A user \in Signers :
           ClaimStepBy(user) =>
               \E args \in {outcome'.args} :
                   ZeroAmountStep(user, args) =>
                       /\ outcome'.err = IF AllLeftAirdropped THEN "ScheduleStopped"
                                         ELSE "NothingToClaim"
                       /\ ChangesNothing]_vars

\* C30 witness: a claim has failed with ScheduleStopped while the airdropped
\* periods had a positive amount for its ledger
StoppedWithAirdrop ==
    /\ outcome.op = "claim" /\ outcome.err = "ScheduleStopped"
    /\ Has(user_details, <<distributor.merkle_index, outcome.user>>)
    /\ Has(refund_claim_request, outcome.user)
    /\ \E avail \in {AvailableTo(outcome.user)} :
           /\ avail.ok
           /\ \E amount_to_add \in {ceil_amount(outcome.args.amount, avail.v[2])} :
                  /\ amount_to_add.ok /\ BLt(<< >>, amount_to_add.v)
                  /\ ComputesNothing(outcome.user, outcome.args, avail, amount_to_add.v)

\* a claim has failed with NothingToClaim while a period that is not
\* airdropped has yet to end and the airdropped periods had a positive
\* amount for its ledger
NothingWithAirdrop ==
    /\ outcome.op = "claim" /\ outcome.err = "NothingToClaim"
    /\ ~AllLeftAirdropped
    /\ Has(refund_claim_request, outcome.user)
    /\ \E avail \in {AvailableTo(outcome.user)} :
           /\ avail.ok
           /\ BLt(<< >>, ceil_amount(outcome.args.amount, avail.v[2]).v)

\* last_claimed_at_ts brought down to the nearest time of the form
\* start_ts + k * interval_sec of a period that started before it
BoundaryBefore(rperiod, rlast) ==
    BAdd(rperiod.start_ts,
         BMul(BDiv(BSub(rlast, rperiod.start_ts), rperiod.interval_sec),
              rperiod.interval_sec))

\* the time the period is counted from: its start, or the boundary of the
\* period the last claim is brought down to
CountedFrom(rperiod, rlast) ==
    IF BLt(rlast, rperiod.start_ts) THEN rperiod.start_ts
    ELSE BoundaryBefore(rperiod, rlast)

\* min(seconds_passed / interval_sec, times) counted from the boundaries of
\* the period
IntervalsByBoundary(rperiod, rnow, rlast) ==
    BMin(BDiv(BSub(rnow, CountedFrom(rperiod, rlast)), rperiod.interval_sec),
         rperiod.times)

\* a period that has started, is not airdropped, and does not end by the
\* last claim, which is not after now
StepPeriod(rperiod, rnow, rlast) ==
    /\ BLe(rlast, rnow)
    /\ BLe(rperiod.start_ts, rnow)
    /\ ~rperiod.airdropped
    /\ BLt(end_ts(rperiod).v, rlast) = FALSE
    /\ end_ts(rperiod).v # rlast

\* C31: for a reachable, not fully claimed, non-airdropped period,
\* last_claimed_at_ts is aligned down to the nearest interval boundary of
\* that period (start_ts + k * interval_sec), seconds_passed = now -
\* max(start_ts, aligned) and intervals_passed = min(seconds_passed /
\* interval_sec, times).
AlignedToPeriod ==
    outcome.op = "bps_available_to_claim" /\ outcome.err = "Ok" =>
        \A i \in DOMAIN distributor.vesting.schedule :
            \E period \in {distributor.vesting.schedule[i]},
               last \in {UdOf("A").last_claimed_at_ts} :
                StepPeriod(period, now, last) =>
                    intervals_passed(period, now, last) =
                        Ok(IntervalsByBoundary(period, now, last))

\* ------------------------------------------------------------------------
\* SpecOrder: claims that several gates refuse at once
\* ------------------------------------------------------------------------

\* the last value of the clock of SpecOrder: claim requests grow stale
OrderMaxNow == 5500

\* the clock moves by an unlock, or by the life of a claim request
OrderTick == Tick(GateTickStep, StopMaxNow) \/ Tick(REFUND_TIME_LIMIT, OrderMaxNow)

\* update_schedule2 leaves a schedule of half of the tokens, or none
OrderChangeLists == {<<Update(<< >>, Half)>>, <<Update(<< >>, Thirds[1])>>}

DoCommitHalf ==
    \E changes \in OrderChangeLists : UpdateSchedule2(UpdateScheduleArgs(changes))

OrderInit ==
    /\ now = N(StartNow)
    /\ leaves = TreeLeaves
    /\ distributor = InitializedDistributor(
                         InitializeArgs(MerkleRoot(leaves), Thirds,
                                        Some(N(RefundDeadline))))
    /\ vault = VaultFunds
    /\ user_details = NoAccounts
    /\ actual_wallet = OwnWallets
    /\ refund_request = NoAccounts
    /\ refund_claim_request = NoAccounts
    /\ Configured
    /\ paid = [w \in Wallets |-> << >>]
    /\ outcome = [op |-> "initialize", err |-> "Ok"]

OrderNext ==
    \/ OrderTick /\ Settled
    \/ DoInitUserDetails /\ Settled
    \/ DoRefundClaimRequest /\ Settled
    \/ DoClaimAny /\ Settled
    \/ DoSetPaused /\ Settled
    \/ DoCommitHalf /\ Settled
    \/ DoInitRefundRequest /\ Settled

SpecOrder == OrderInit /\ [][OrderNext]_vars

\* the claim request of `user` has grown stale
StaleRequest(user) ==
    BLt(BAdd(refund_claim_request[user].time_stamp, N(REFUND_TIME_LIMIT)), now)

\* the error of the amounts, the sixth gate: ScheduleStopped, NothingToClaim
\* or none
SixthGate(user, args) == ErrOf(ClaimAmounts(args, UdOf(user)))

\* the error of the earliest gate that refuses, from the ledger on
FromLedgerGate(user, args) ==
    IF ~BLt(UdOf(user).claimed_amount, args.amount) THEN "AlreadyClaimed"
    ELSE IF RefundGateShut(args) THEN "RefundRequested"
    ELSE IF ~check_proof(args.original_wallet, args.amount, distributor.merkle_root,
                         args.merkle_proof).ok
    THEN "InvalidProof"
    ELSE SixthGate(user, args)

\* the error of the earliest gate that refuses in the order pause, schedule
\* validation, AlreadyClaimed, refund rejection, InvalidProof, amounts
FromPauseGate(user, args) ==
    IF distributor.paused THEN "Paused"
    ELSE IF ~validate(distributor.vesting.schedule).ok
    THEN validate(distributor.vesting.schedule).err
    ELSE FromLedgerGate(user, args)

\* the same with the age of the claim request looked at first
FromFreshnessGate(user, args) ==
    IF StaleRequest(user) THEN "DeadlineExpiredForRefund"
    ELSE FromPauseGate(user, args)

\* the gates that refuse the claim
Refusing(user, args) ==
    {gate \in {"Paused", "ScheduleValid", "AlreadyClaimed", "RefundRequested",
               "InvalidProof"} :
        \/ gate = "Paused" /\ distributor.paused
        \/ gate = "ScheduleValid" /\ ~validate(distributor.vesting.schedule).ok
        \/ gate = "AlreadyClaimed" /\ ~BLt(UdOf(user).claimed_amount, args.amount)
        \/ gate = "RefundRequested" /\ RefundGateShut(args)
        \/ gate = "InvalidProof" /\
               ~check_proof(args.original_wallet, args.amount, distributor.merkle_root,
                            args.merkle_proof).ok}

\* a claim step whose account constraints pass fails with `first`, or pays
\* when no gate refuses; a refused claim changes nothing
PrecedenceStep(user, args, first) ==
    ClaimAccounts(user, args).ok =>
        /\ first # "Ok" => outcome'.err = first /\ ChangesNothing
        /\ first = "Ok" =>
               \/ outcome'.err = "Ok"
               \/ outcome'.err \in {"InsufficientFunds", "IntegerOverflow",
                                    "InvalidAmountTransferred"} /\ ChangesNothing
        /\ vault' # vault \/ user_details' # user_details => first = "Ok"

\* C32 as stated: when several claim gates fail at once the error is that of
\* the earliest gate in the order pause, schedule validation,
\* AlreadyClaimed, refund rejection, InvalidProof, then ScheduleStopped or
\* NothingToClaim; a claim on a paused distribution always reports Paused.
GatePrecedenceAsStated ==
    [][\A user \in Signers :
           ClaimStepBy(user) =>
               \E args \in {outcome'.args} :
                   \E first \in {FromPauseGate(user, args)} :
                       PrecedenceStep(user, args, first)]_vars

\* C32: the same once the account constraints of the claim have passed and
\* the claim request of the signer is not older than REFUND_TIME_LIMIT; a
\* stale claim request is reported before the pause. The vault and the
\* ledger change only when every gate has passed.
GatePrecedence ==
    [][\A user \in Signers :
           ClaimStepBy(user) =>
               \E args \in {outcome'.args} :
                   \E first \in {FromFreshnessGate(user, args)} :
                       PrecedenceStep(user, args, first)]_vars

\* C32 witness: a claim that the pause, the schedule validation, the ledger
\* and the proof all refuse has reported Paused
AllRefusePausedFirst ==
    /\ outcome.op = "claim" /\ outcome.err = "Paused"
    /\ Has(user_details, <<distributor.merkle_index, outcome.user>>)
    /\ Has(refund_claim_request, outcome.user)
    /\ ~StaleRequest(outcome.user)
    /\ ClaimAccounts(outcome.user, outcome.args).ok
    /\ Cardinality(Refusing(outcome.user, outcome.args)) >= 4

\* a claim that the refund gate and the proof both refuse has reported
\* RefundRequested
RefundBeforeProof ==
    /\ outcome.op = "claim" /\ outcome.err = "RefundRequested"
    /\ Has(user_details, <<distributor.merkle_index, outcome.user>>)
    /\ "InvalidProof" \in Refusing(outcome.user, outcome.args)

\* C33: each ledger record of a generation is charged by claims proven for
\* at most one original recipient. The record that a claim for the leaf of
\* an original recipient has read, and written when it paid, therefore
\* holds no more than what was paid for that leaf: an excess is what claims
\* proven for another original recipient have charged to the same record.
LedgerExclusive ==
    /\ outcome.op = "claim"
    /\ outcome.err \notin {"AccountNotInitialized", "WrongClaimer"}
    => BLe(UdOf(outcome.user).claimed_amount, paid[outcome.args.original_wallet])

\* the intervals of a period that bps_available_to_claim credits at `cnow`
\* to a record last claimed at `clast`: none for a period that is to come,
\* that ends by the last claim, or that is airdropped
CreditedAt(cperiod, cnow, clast) ==
    IF BLt(cnow, cperiod.start_ts) THEN << >>
    ELSE IF BLe(end_ts(cperiod).v, clast) THEN << >>
    ELSE IF cperiod.airdropped THEN << >>
    ELSE intervals_passed(cperiod, cnow, clast).v

\* the intervals of a period credited by a first claim at `first` and by a
\* second claim now
CreditedTwice(cperiod, first) ==
    BAdd(CreditedAt(cperiod, first, << >>), CreditedAt(cperiod, now, first))

\* the first claim was paid: some period had intervals to credit
FirstClaimPaid(first) ==
    /\ BLe(first, now)
    /\ \E i \in DOMAIN distributor.vesting.schedule :
           CreditedAt(distributor.vesting.schedule[i], first, << >>) # << >>

\* C34: for a fixed valid schedule and a sequence of successful claims of
\* one recipient in one generation with non-decreasing now, the intervals of
\* a single period credited across the claims never exceed the times of the
\* period. Here the sequence is a first claim at the last_claimed_at_ts of
\* the record and a second claim now.
CreditBound ==
    outcome.op = "bps_available_to_claim" /\ outcome.err = "Ok" =>
        \E first \in {UdOf("A").last_claimed_at_ts} :
            FirstClaimPaid(first) =>
                \A i \in DOMAIN distributor.vesting.schedule :
                    BLe(CreditedTwice(distributor.vesting.schedule[i], first),
                        distributor.vesting.schedule[i].times)

\* ------------------------------------------------------------------------
\* SpecCredit: claims under a period whose start is no multiple of its
\* interval
\* ------------------------------------------------------------------------

\* six unlocks of a sixth, at 1250, 1400, 1550, 1700, 1850 and 2000
Offset == <<Period(Pct(100), N(1100), N(150), N(6), FALSE)>>

\* an entitlement whose every unlock is a whole number of tokens
CreditLeaves == <<Leaf("A", N(600)), Leaf("B", EntB)>>

CreditInit == InitOver({Offset, Thirds}, {CreditLeaves}, StartNow)

CreditNext ==
    \/ DoTick /\ Settled
    \/ DoInitUserDetails /\ Settled
    \/ DoRefundClaimRequest /\ Settled
    \/ DoClaim /\ Settled

SpecCredit == CreditInit /\ [][CreditNext]_vars

\* every period of the schedule has ended by now
AllEnded ==
    \A i \in DOMAIN distributor.vesting.schedule :
        BLe(end_ts(distributor.vesting.schedule[i]).v, now)

\* C35: no vested interval is lost. For a fixed valid schedule without
\* airdropped periods, once the recipient has successfully claimed at a time
\* now >= the end of a period, all the intervals of the period have been
\* credited across the claims: after a successful claim at or after the end
\* of every period, the recipient has been paid no less than the whole
\* entitlement.
NoIntervalLost ==
    outcome.op = "claim" /\ outcome.err = "Ok" /\ AllEnded =>
        BLe(Entitlement(outcome.user), paid[outcome.user])

\* C36: stop_vesting and stop_vesting2 applied at any time now to a stored
\* schedule that passes validate() leave a stored schedule that still
\* passes validate(), so that the claims made after an early stop are not
\* refused by the validation of the schedule in claim.
StopKeepsValid ==
    [][/\ outcome'.op \in {"stop_vesting", "stop_vesting2"}
       /\ outcome'.err = "Ok"
       /\ validate(distributor.vesting.schedule).ok
       => \E stopped \in {distributor'.vesting.schedule} : validate(stopped).ok]_vars

\* ------------------------------------------------------------------------
\* SpecFreeze: refund requests across generations
\* ------------------------------------------------------------------------

FreezeInit ==
    /\ now = N(StartNow)
    /\ leaves = TreeLeaves
    /\ distributor = InitializedDistributor(
                         InitializeArgs(MerkleRoot(leaves), Thirds,
                                        Some(N(RefundDeadline))))
    /\ vault = VaultFunds
    /\ user_details = NoAccounts
    /\ actual_wallet = OwnWallets
    /\ refund_request = NoAccounts
    /\ refund_claim_request = NoAccounts
    /\ Configured
    /\ paid = [w \in Wallets |-> << >>]
    /\ outcome = [op |-> "initialize", err |-> "Ok"]

FreezeNext ==
    \/ StopTick /\ Settled
    \/ DoInitUserDetails /\ Settled
    \/ DoRefundClaimRequest /\ Settled
    \/ DoClaim /\ Settled
    \/ DoInitRefundRequest /\ Settled
    \/ DoCancelRefundRequest /\ Settled
    \/ DoUpdateRoot /\ Settled

SpecFreeze == FreezeInit /\ [][FreezeNext]_vars

\* the distributor has a refund deadline that is over and the refund
\* request of `wallet` is active, in the accounts `requests` at `at_now`
FrozenIn(refund_deadline_ts, requests, at_now, wallet) ==
    /\ refund_deadline_ts # None
    /\ BLt(refund_deadline_ts.v, at_now)
    /\ Has(requests, wallet)
    /\ requests[wallet].active

\* a step from a state where `wallet` is frozen leaves it frozen, and is no
\* successful claim for the leaf of `wallet`
FreezeStep(wallet) ==
    FrozenIn(distributor.refund_deadline_ts, refund_request, now, wallet) =>
        /\ FrozenIn(distributor'.refund_deadline_ts, refund_request', now', wallet)
        /\ outcome'.op = "claim" /\ outcome'.args.original_wallet = wallet =>
               outcome'.err # "Ok" /\ ChangesNothing

ADMIN == "DatpvACGfVEt322aJvrNUM5gHo7z7L3jm3TgpADEW3Bg"

\* the AdminStats account (lines 1375-1378)
AdminStats(un_claimed_amount) == [un_claimed_amount |-> un_claimed_amount]

\* un_claimed_amount + amount in u64 (line 550): above 2^64 - 1, a build
\* with overflow checks panics and a build without wraps around 2^64
AddU64(lhs_add, rhs_add, overflow_checks) ==
    IF BLe(BAdd(lhs_add, rhs_add), U64_MAX) THEN Ok(BAdd(lhs_add, rhs_add))
    ELSE IF overflow_checks THEN Err("Panic")
    ELSE Ok(BSub(BSub(BAdd(lhs_add, rhs_add), U64_MAX), <<1>>))

\* the AdminStats account that remove_refund works on: init_if_needed makes
\* an account of zeroes when there is none (line 1400)
AdminStatsLoaded == IF admin_stats.some THEN admin_stats.v ELSE AdminStats(<< >>)

\* remove_refund refused: the instruction commits nothing
RemoveRefundFailed(caller, claimant, err) ==
    /\ outcome' = [op |-> "remove_refund", err |-> err, caller |-> caller,
                   claimant |-> claimant]
    /\ UNCHANGED <<now, distributor, vault, user_details, actual_wallet, refund_request,
                   refund_claim_request, leaves, paid, admin_stats>>

\* remove_refund signed by `caller` on the RefundClaimRequest account of
\* `claimant` (lines 547-553, context 1396-1404): the account must exist,
\* the signer must be ADMIN, the amount of the request is added to the
\* statistics and the account is closed
RemoveRefund(caller, claimant, overflow_checks) ==
    IF ~Has(refund_claim_request, claimant)
    THEN RemoveRefundFailed(caller, claimant, "AccountNotInitialized")
    ELSE IF caller # ADMIN
    THEN RemoveRefundFailed(caller, claimant, "ConstraintRaw")
    ELSE \E sum \in {AddU64(AdminStatsLoaded.un_claimed_amount,
                            refund_claim_request[claimant].amount, overflow_checks)} :
             IF ~sum.ok
             THEN RemoveRefundFailed(caller, claimant, sum.err)
             ELSE /\ admin_stats' = Some(AdminStats(sum.v))
                  /\ refund_claim_request' = Close(refund_claim_request, claimant)
                  /\ outcome' = [op |-> "remove_refund", err |-> "Ok", caller |-> caller,
                                 claimant |-> claimant]
                  /\ UNCHANGED <<now, distributor, vault, user_details, actual_wallet,
                                 refund_request, leaves, paid>>

\* the last value of the clock of SpecRequest, and the statistics from
\* which remove_refund is no longer followed
RequestMaxNow == 5500
MaxUnclaimed == 2000

\* the amount of a request that, added to statistics that hold the
\* entitlement of `user`, passes 2^64 - 1 by one
HugeAmount(user) == BSub(U64_MAX, BSub(Entitlement(user), <<1>>))

\* the clock moves by an unlock, or by the life of a claim request
RequestTick == Tick(TickStep, MaxNow) \/ Tick(REFUND_TIME_LIMIT, RequestMaxNow)

\* refund_claim_request with the amount of the leaf, or with a huge one
DoRefundClaimRequestAny ==
    \E user \in Signers :
        \E amount \in {Entitlement(user), HugeAmount(user)} :
            RefundClaimRequest(user, amount)

\* remove_refund signed by ADMIN or by the claimant, in either build
DoRemoveRefund ==
    /\ BLt(AdminStatsLoaded.un_claimed_amount, N(MaxUnclaimed))
    /\ \E caller \in {ADMIN} \cup Signers, claimant \in Signers,
          overflow_checks \in BOOLEAN :
           RemoveRefund(caller, claimant, overflow_checks)
    /\ UNCHANGED <<config, signer, foreseen>>

RequestInit == InitOver({Thirds}, {TreeLeaves}, StartNow)

RequestNext ==
    \/ RequestTick /\ Settled
    \/ DoInitUserDetails /\ Settled
    \/ DoRefundClaimRequestAny /\ Settled
    \/ DoClaimAny /\ Settled
    \/ DoSetPaused /\ Settled
    \/ DoRemoveRefund

SpecRequest == RequestInit /\ [][RequestNext]_vars

\* a claim step of `user`: it pays only on a claim request that the signer
\* holds and that is not older than REFUND_TIME_LIMIT, and closes it;
\* without a claim request it is refused and changes nothing
ClaimNeedsRequest(user) ==
    /\ outcome'.err = "Ok" =>
           /\ Has(refund_claim_request, user)
           /\ ~StaleRequest(user)
           /\ ~Has(refund_claim_request', user)
    /\ ~Has(refund_claim_request, user) =>
           outcome'.err = "AccountNotInitialized" /\ ChangesNothing

\* a step of refund_claim_request or of remove_refund: the request is
\* stamped with the clock; only ADMIN removes a request, and the request
\* is then no longer held
RequestMadeAndRemoved ==
    /\ outcome'.op = "refund_claim_request" /\ outcome'.err = "Ok" =>
           \A user \in Signers :
               ~Has(refund_claim_request, user) /\ Has(refund_claim_request', user) =>
                   refund_claim_request'[user].time_stamp = now
    /\ outcome'.op = "remove_refund" =>
           /\ outcome'.err = "Ok" =>
                  /\ outcome'.caller = ADMIN
                  /\ Has(refund_claim_request, outcome'.claimant)
                  /\ ~Has(refund_claim_request', outcome'.claimant)
                  /\ admin_stats'.some
           /\ outcome'.err # "Ok" =>
                  refund_claim_request' = refund_claim_request /\ admin_stats' = admin_stats
           /\ UNCHANGED <<vault, user_details, paid>>

\* C38 as stated: a claim succeeds only on a RefundClaimRequest record of
\* the signer made by refund_claim_request with time_stamp + 3600 >= now;
\* with time_stamp + 3600 < now the claim fails with
\* DeadlineExpiredForRefund before any other gate; a claim that pays closes
\* the record, and a record that ADMIN removed through remove_refund
\* authorizes no claim. The accounts of the claim exist.
StaleBeforeAnyGate ==
    [][/\ RequestMadeAndRemoved
       /\ \A user \in Signers :
              outcome'.op = "claim" /\ outcome'.user = user =>
                  /\ ClaimNeedsRequest(user)
                  /\ (/\ Has(refund_claim_request, user)
                      /\ Has(user_details, <<distributor.merkle_index, user>>)
                      /\ Has(actual_wallet, outcome'.args.original_wallet)
                      /\ StaleRequest(user))
                     => outcome'.err = "DeadlineExpiredForRefund"]_vars

\* C38: the same, with the stale record reported once the account
\* constraints of the claim have passed; a claim whose accounts are refused
\* fails with the error of the constraint, stale record or not.
RequestAuthorizesOnce ==
    [][/\ RequestMadeAndRemoved
       /\ \A user \in Signers :
              outcome'.op = "claim" /\ outcome'.user = user =>
                  /\ ClaimNeedsRequest(user)
                  /\ \E args \in {outcome'.args} :
                         IF ~ClaimAccounts(user, args).ok
                         THEN outcome'.err = ClaimAccounts(user, args).err
                              /\ ChangesNothing
                         ELSE StaleRequest(user) =>
                                  /\ outcome'.err = "DeadlineExpiredForRefund"
                                  /\ ChangesNothing]_vars

\* C38 witness: after a claim that paid and a removal by ADMIN, a claim on
\* a new request that has grown stale is refused on a paused distribution
\* with DeadlineExpiredForRefund
StaleAfterPaidAndRemoved ==
    /\ outcome.op = "claim" /\ outcome.err = "DeadlineExpiredForRefund"
    /\ distributor.paused
    /\ admin_stats.some
    /\ paid[outcome.user] # << >>
    /\ Has(refund_claim_request, outcome.user)
    /\ StaleRequest(outcome.user)

\* a stale claim request with the wallet of another recipient: the account
\* constraint answers first
StaleWrongClaimer ==
    /\ outcome.op = "claim" /\ outcome.err = "WrongClaimer"
    /\ Has(refund_claim_request, outcome.user)
    /\ StaleRequest(outcome.user)

\* the statistics have wrapped around 2^64
StatsWrapped == admin_stats.some /\ admin_stats.v.un_claimed_amount = << >>

====
